---------------------------- MODULE Spec2Model ----------------------------
(***************************************************************************)
(* The hALGO protocol's Algorand applications as state machines.           *)
(*                                                                         *)
(* Every application of the repository is a PyTeal approval program: one   *)
(* Cond that routes a transaction to a handler, each handler a Seq of      *)
(* Asserts and state writes ending in Return.  The ledger runs one         *)
(* transaction at a time and keeps the writes of a program only when it    *)
(* ends with a non-zero Return; a failed Assert discards them.             *)
(*                                                                         *)
(* The applications share no storage and never read one another's state,   *)
(* so a behaviour is the life of ONE deployed application: `app` says      *)
(* which program was deployed, `global` is its global key-value store,     *)
(* `local` the per-account local store.  Where a claim speaks of an engine *)
(* next to the price oracle, `oracle` holds the oracle's global store      *)
(* beside the engine's.                                                    *)
(***************************************************************************)
EXTENDS Integers, Sequences, FiniteSets, TLC

VARIABLES
    app,      \* which approval program this deployment runs
    global,   \* App.globalGet / App.globalPut: key |-> uint64
    local,    \* App.localGet / App.localPut: account |-> (key |-> uint64)
    now,      \* Global.latest_timestamp()
    last,     \* the last application call and how it ended
    hist,     \* history of committed calls (what a ledger explorer shows)
    oracle    \* the global store of the price oracle deployed beside an engine

vars == <<app, global, local, now, last, hist, oracle>>

---------------------------------------------------------------------------
(* Bounds of the model                                                     *)

\* Ledger time at deployment.
T0 == 1000
\* Counters that the code only ever increments are followed up to here.
MaxCount == 2

(* Program constants                                                       *)

ENT_MAX_PRICE_DEVIATION == 500
ENT_STALENESS_THRESHOLD == 3600
PO_MAX_PRICE_DEVIATION == 500
PO_PRICE_STALENESS_THRESHOLD == 3600
SIMPLE_max_price_deviation == 500
SIMPLE_staleness_threshold == 3600
INITIAL_PRICE == 250000
INITIAL_REPUTATION == 100
BPS == 10000
LIQUIDATION_THRESHOLD == 120
LIQUIDATION_PENALTY == 500
INITIAL_SYSTEM_HEALTH == 10000
REBALANCE_THRESHOLD == 500
MIN_REBALANCE_INTERVAL == 3600
MAX_SLIPPAGE == 300
MAX_FUNDING_RATE == 1000000
PRICE_SCALE == 1000000
MAX_HEDGE_RATIO == 10000

---------------------------------------------------------------------------
(* Accounts, time, transaction arguments                                   *)

Creator == "creator"
Principals == {"creator", "alice", "bob"}

Enterprise == "EnterprisePriceOracle"
PriceOracle == "PriceOracle"
Simple == "SimplePriceOracle"
RiskManager == "RiskManager"
RebalanceEngine == "RebalanceEngine"
OracleApps == {Enterprise, PriceOracle, Simple}

\* A deployment that is looked at on its own has no oracle beside it.
NoOracle == [deployed |-> FALSE]

\* The values the ledger clock takes; it never goes back.
Times == {T0, T0 + ENT_STALENESS_THRESHOLD, T0 + ENT_STALENESS_THRESHOLD + 1}

\* Itob: a uint64 as 8 big-endian bytes.
RECURSIVE BigEndian(_, _)
BigEndian(n, len) ==
    IF len = 0 THEN <<>> ELSE Append(BigEndian(n \div 256, len - 1), n % 256)

Itob(n) == BigEndian(n, 8)

\* Btoi: big-endian bytes as a uint64; the AVM fails on more than 8 bytes.
BtoiOk(bytes) == Len(bytes) <= 8

\* The value of the first k bytes, most significant first.
RECURSIVE BtoiPrefix(_, _)
BtoiPrefix(bytes, k) ==
    IF k = 0 THEN 0 ELSE 256 * BtoiPrefix(bytes, k - 1) + bytes[k]

Btoi(bytes) == BtoiPrefix(bytes, Len(bytes))

\* Prices submitted in the model: the seed, Scenario A's 260000 and 300000,
\* and the edges of the 5% band around 250000 and 262500.
PriceInputs == {0, 237499, 237500, 250000, 260000, 262500, 262501, 300000}

\* A 9-byte argument (value 1 with a leading zero byte): Btoi rejects it.
LongBytes == <<0, 0, 0, 0, 0, 0, 0, 0, 1>>

PriceArgs == {Itob(p) : p \in PriceInputs} \cup {LongBytes}

\* Txn.application_args[i] (0-based in the source).
Arg(args, i) == args[i + 1]

---------------------------------------------------------------------------
(* What a call leaves behind                                               *)

\* err = "" : the program ended with a non-zero Return and its writes are
\* kept; otherwise err names the Assert that failed and nothing is written.
Call(op, sender, args, err, ret) ==
    [op |-> op, sender |-> sender, args |-> args, err |-> err, ret |-> ret]

\* A call made inside a transaction group, with the group it was made in.
GroupCall(op, sender, args, group, err, ret) ==
    [op |-> op, sender |-> sender, args |-> args, group |-> group,
     err |-> err, ret |-> ret]

Accepted(call) == call.err = ""

\* uint64 arithmetic of the AVM: a - b fails when b > a.
AbsDiff(a, b) == IF a > b THEN a - b ELSE b - a


\* The arguments of a call to method `name` that takes one value from
\* `values`: none, the one, and (for the values in `surplus`) the one with
\* a surplus argument after it.
OneArg(name, values, surplus) ==
    {<<name>>} \cup {<<name, v>> : v \in values}
               \cup {<<name, v, <<0>>>> : v \in surplus}

NoArg(name) == {<<name>>}

---------------------------------------------------------------------------
(* EnterprisePriceOracle                                                   *)

EntOnCreation(t) ==
    [current_price |-> INITIAL_PRICE, last_update |-> t, oracle_count |-> 0,
     circuit_breaker |-> 0, total_submissions |-> 0]

\* An account that has not opted in holds no local state; localGet reads 0.
EntNoLocal == [opted |-> FALSE, oracle_auth |-> 0, oracle_rep |-> 0, last_sub |-> 0]

\* (mutant) registration starts the reputation at the authorized flag's 0.
EntOnOptIn_ZeroReputation ==
    [opted |-> TRUE, oracle_auth |-> 0, oracle_rep |-> 0, last_sub |-> 0]

EntOnOptIn ==
    [opted |-> TRUE, oracle_auth |-> 0, oracle_rep |-> INITIAL_REPUTATION,
     last_sub |-> 0]

\* (mutant) the sender check lets every account through.
SenderIsCreator_Anyone(s) == s \in Principals

\* PyTealPatterns.validate_sender_is_creator
SenderIsCreator(s) == s = Creator

EntAuthorizeErr(s, args) ==
    IF ~SenderIsCreator(s) THEN "Unauthorized"
    ELSE IF ~(Len(args) >= 2) THEN "InvalidArgumentCount"
    ELSE ""

\* authorize_oracle writes the counter and nothing else.
EntAuthorizeGlobal(g) == [g EXCEPT !.oracle_count = g.oracle_count + 1]

EntAuthorizeLocal(l, args) == l

\* (mutant) the allowed deviation is rounded up.
EntMaxDeviation_RoundUp(price) ==
    (price * ENT_MAX_PRICE_DEVIATION + BPS - 1) \div BPS

EntMaxDeviation(price) == (price * ENT_MAX_PRICE_DEVIATION) \div BPS

\* (mutant) the handler as PriceOracle.py has it: the sender's flag and the
\* breaker are not looked at.
EntSubmitErr_DeviationOnly(g, l, s, args) ==
    IF ~(Len(args) >= 2) THEN "InvalidArgumentCount"
    ELSE IF ~BtoiOk(Arg(args, 1)) THEN "BtoiError"
    ELSE IF ~(AbsDiff(Btoi(Arg(args, 1)), g.current_price)
                <= EntMaxDeviation(g.current_price)) THEN "DeviationExceeded"
    ELSE ""

\* (mutant) the sender's flag is not looked at.
EntSubmitErr_NoAuth(g, l, s, args) ==
    IF ~(Len(args) >= 2) THEN "InvalidArgumentCount"
    ELSE IF ~(g.circuit_breaker = 0) THEN "CircuitBreakerActive"
    ELSE IF ~BtoiOk(Arg(args, 1)) THEN "BtoiError"
    ELSE IF ~(AbsDiff(Btoi(Arg(args, 1)), g.current_price)
                <= EntMaxDeviation(g.current_price)) THEN "DeviationExceeded"
    ELSE ""

\* The Asserts of submit_price in the order of the source.
EntSubmitErr(g, l, s, args) ==
    IF ~(l[s].oracle_auth = 1) THEN "OracleNotAuthorized"
    ELSE IF ~(Len(args) >= 2) THEN "InvalidArgumentCount"
    ELSE IF ~(g.circuit_breaker = 0) THEN "CircuitBreakerActive"
    ELSE IF ~BtoiOk(Arg(args, 1)) THEN "BtoiError"
    ELSE IF ~(AbsDiff(Btoi(Arg(args, 1)), g.current_price)
                <= EntMaxDeviation(g.current_price)) THEN "DeviationExceeded"
    ELSE ""

\* (mutant) an accepted submission leaves last_update as it was.
EntSubmitGlobal_KeepsTime(g, args, t) ==
    [g EXCEPT !.current_price = Btoi(Arg(args, 1)),
              !.total_submissions = g.total_submissions + 1]

EntSubmitGlobal(g, args, t) ==
    [g EXCEPT !.current_price = Btoi(Arg(args, 1)),
              !.last_update = t,
              !.total_submissions = g.total_submissions + 1]

\* (mutant) the reputation is left as it was.
EntSubmitLocal_NoReputation(l, s, t) == [l EXCEPT ![s].last_sub = t]

EntSubmitLocal(l, s, t) ==
    [l EXCEPT ![s].last_sub = t, ![s].oracle_rep = l[s].oracle_rep + 1]

\* (mutant) the breaker is looked at before the age of the price.
EntGetPriceErr_BreakerFirst(g, t) ==
    IF ~(g.circuit_breaker = 0) THEN "CircuitBreakerActive"
    ELSE IF t < g.last_update THEN "ArithmeticError"
    ELSE IF ~(t - g.last_update <= ENT_STALENESS_THRESHOLD) THEN "StalePrice"
    ELSE IF g.current_price = 0 THEN "ReturnedZero"
    ELSE ""

EntGetPriceErr(g, t) ==
    IF t < g.last_update THEN "ArithmeticError"
    ELSE IF ~(t - g.last_update <= ENT_STALENESS_THRESHOLD) THEN "StalePrice"
    ELSE IF ~(g.circuit_breaker = 0) THEN "CircuitBreakerActive"
    ELSE IF g.current_price = 0 THEN "ReturnedZero"
    ELSE ""

EntBreakerErr(s) == IF ~SenderIsCreator(s) THEN "Unauthorized" ELSE ""

EntEmergencyPauseGlobal(g) == [g EXCEPT !.circuit_breaker = 1]

EntResumeGlobal(g) == [g EXCEPT !.circuit_breaker = 0]

\* History: who ever opted in, and whose authorization the creator has
\* had committed since they last opted in.
HistOptIn(h, s) ==
    [h EXCEPT !.ever_opted = @ \cup {s}, !.granted = @ \ {s}]

HistCloseOut(h, s) == [h EXCEPT !.granted = @ \ {s}]

\* History: the highest reputation each account has held in
\* EnterprisePriceOracle.
EntHistOptIn(h, s) ==
    [HistOptIn(h, s) EXCEPT
        !.top_rep[s] = IF @ > INITIAL_REPUTATION THEN @ ELSE INITIAL_REPUTATION]

EntHistSubmit(h, l, s) ==
    [h EXCEPT !.top_rep[s] = IF @ > l[s].oracle_rep THEN @ ELSE l[s].oracle_rep]

HistAuthorize(h, l, args) ==
    IF Len(args) >= 2 /\ Arg(args, 1) \in Principals /\ l[Arg(args, 1)].opted
    THEN [h EXCEPT !.granted = @ \cup {Arg(args, 1)}]
    ELSE h

\* The ledger runs the program for an OptIn only when the sender holds no
\* local state of the application, and for a CloseOut only when it does.
OptInErr(l, s) == IF l[s].opted THEN "AlreadyOptedIn" ELSE ""

CloseOutErr(l, s) == IF ~l[s].opted THEN "NotOptedIn" ELSE ""

EntOptIn ==
    /\ app = Enterprise
    /\ \E s \in Principals :
        LET err == OptInErr(local, s) IN
        /\ local' = IF err = "" THEN [local EXCEPT ![s] = EntOnOptIn] ELSE local
        /\ hist' = IF err = "" THEN EntHistOptIn(hist, s) ELSE hist
        /\ last' = Call("opt_in", s, <<>>, err, IF err = "" THEN 1 ELSE 0)
    /\ UNCHANGED <<app, oracle, global, now>>

EntCloseOut ==
    /\ app = Enterprise
    /\ \E s \in Principals :
        LET err == CloseOutErr(local, s) IN
        /\ local' = IF err = "" THEN [local EXCEPT ![s] = EntNoLocal] ELSE local
        /\ hist' = IF err = "" THEN HistCloseOut(hist, s) ELSE hist
        /\ last' = Call("close_out", s, <<>>, err, IF err = "" THEN 1 ELSE 0)
    /\ UNCHANGED <<app, oracle, global, now>>

EntAuthorizeCalls == OneArg("authorize", Principals, {"alice"})

EntAuthorize ==
    /\ app = Enterprise
    /\ \E s \in Principals, args \in EntAuthorizeCalls :
        LET err == EntAuthorizeErr(s, args) IN
        /\ err = "" => global.oracle_count < MaxCount
        /\ global' = IF err = "" THEN EntAuthorizeGlobal(global) ELSE global
        /\ local' = IF err = "" THEN EntAuthorizeLocal(local, args) ELSE local
        /\ hist' = IF err = "" THEN HistAuthorize(hist, local, args) ELSE hist
        /\ last' = Call("authorize", s, args, err, IF err = "" THEN 1 ELSE 0)
    /\ UNCHANGED <<app, oracle, now>>

EntSubmitPriceCalls == OneArg("submit", PriceArgs, {Itob(260000)})

EntSubmitPrice ==
    /\ app = Enterprise
    /\ \E s \in Principals, args \in EntSubmitPriceCalls :
        LET err == EntSubmitErr(global, local, s, args) IN
        /\ err = "" => global.total_submissions < MaxCount
        /\ global' = IF err = "" THEN EntSubmitGlobal(global, args, now) ELSE global
        /\ local' = IF err = "" THEN EntSubmitLocal(local, s, now) ELSE local
        /\ hist' = IF err = "" THEN EntHistSubmit(hist, local', s) ELSE hist
        /\ last' = Call("submit", s, args, err, IF err = "" THEN 1 ELSE 0)
    /\ UNCHANGED <<app, oracle, now>>

EntGetPriceCalls == NoArg("get_price")

EntGetPrice ==
    /\ app = Enterprise
    /\ \E s \in Principals, args \in EntGetPriceCalls :
        LET err == EntGetPriceErr(global, now) IN
        last' = Call("get_price", s, args, err,
                     IF err = "" THEN global.current_price ELSE 0)
    /\ UNCHANGED <<app, oracle, global, local, now, hist>>

EntEmergencyPauseCalls == NoArg("emergency_pause")

EntEmergencyPause ==
    /\ app = Enterprise
    /\ \E s \in Principals, args \in EntEmergencyPauseCalls :
        LET err == EntBreakerErr(s) IN
        /\ global' = IF err = "" THEN EntEmergencyPauseGlobal(global) ELSE global
        /\ last' = Call("emergency_pause", s, args, err, IF err = "" THEN 1 ELSE 0)
    /\ UNCHANGED <<app, oracle, local, now, hist>>

EntResumeCalls == NoArg("resume")

EntResume ==
    /\ app = Enterprise
    /\ \E s \in Principals, args \in EntResumeCalls :
        LET err == EntBreakerErr(s) IN
        /\ global' = IF err = "" THEN EntResumeGlobal(global) ELSE global
        /\ last' = Call("resume", s, args, err, IF err = "" THEN 1 ELSE 0)
    /\ UNCHANGED <<app, oracle, local, now, hist>>

---------------------------------------------------------------------------
(* PriceOracle                                                             *)

\* The program keeps no local state and routes no OptIn: no account ever
\* holds local state of this application.
PONoLocal == [opted |-> FALSE]

POOnCreation(t) ==
    [current_price |-> INITIAL_PRICE, last_update |-> t, oracle_count |-> 0,
     circuit_breaker |-> 0]

POAddOracleErr(s, args) ==
    IF ~(s = Creator) THEN "Unauthorized"
    ELSE IF ~(Len(args) = 2) THEN "InvalidArgumentCount"
    ELSE ""

POAddOracleGlobal(g) == [g EXCEPT !.oracle_count = g.oracle_count + 1]

\* (mutant) a band of 50% instead of 5%.
POMaxDeviation_Wide(price) == (price * 10 * PO_MAX_PRICE_DEVIATION) \div BPS

POMaxDeviation(price) == (price * PO_MAX_PRICE_DEVIATION) \div BPS

\* The Asserts of submit_price in the order of the source: the argument
\* count and the deviation, nothing about the sender or the breaker.
POSubmitErr(g, s, args) ==
    IF ~(Len(args) = 2) THEN "InvalidArgumentCount"
    ELSE IF ~BtoiOk(Arg(args, 1)) THEN "BtoiError"
    ELSE IF ~(AbsDiff(Btoi(Arg(args, 1)), g.current_price)
                <= POMaxDeviation(g.current_price)) THEN "DeviationExceeded"
    ELSE ""

\* (mutant) a committed price clears the breaker.
POSubmitGlobal_ClearsBreaker(g, args, t) ==
    [g EXCEPT !.current_price = Btoi(Arg(args, 1)), !.last_update = t,
              !.circuit_breaker = 0]

POSubmitGlobal(g, args, t) ==
    [g EXCEPT !.current_price = Btoi(Arg(args, 1)), !.last_update = t]

POGetPriceErr(g, t) ==
    IF t < g.last_update THEN "ArithmeticError"
    ELSE IF ~(t - g.last_update <= PO_PRICE_STALENESS_THRESHOLD) THEN "StalePrice"
    ELSE IF ~(g.circuit_breaker = 0) THEN "CircuitBreakerActive"
    ELSE ""

POBreakerErr(s) == IF ~(s = Creator) THEN "Unauthorized" ELSE ""

POTriggerGlobal(g) == [g EXCEPT !.circuit_breaker = 1]

POResetGlobal(g) == [g EXCEPT !.circuit_breaker = 0]

\* History: the accounts named in a committed add_oracle.
HistAddOracle(h, args) == [h EXCEPT !.granted = @ \cup {Arg(args, 1)}]

POAddOracleCalls == OneArg("add_oracle", Principals, {"alice"})

POAddOracle ==
    /\ app = PriceOracle
    /\ \E s \in Principals, args \in POAddOracleCalls :
        LET err == POAddOracleErr(s, args) IN
        /\ err = "" => global.oracle_count < MaxCount
        /\ global' = IF err = "" THEN POAddOracleGlobal(global) ELSE global
        /\ hist' = IF err = "" THEN HistAddOracle(hist, args) ELSE hist
        /\ last' = Call("add_oracle", s, args, err, IF err = "" THEN 1 ELSE 0)
    /\ UNCHANGED <<app, oracle, local, now>>

POSubmitPriceCalls == OneArg("submit_price", PriceArgs, {Itob(260000)})

POSubmitPrice ==
    /\ app = PriceOracle
    /\ \E s \in Principals, args \in POSubmitPriceCalls :
        LET err == POSubmitErr(global, s, args) IN
        /\ global' = IF err = "" THEN POSubmitGlobal(global, args, now) ELSE global
        /\ last' = Call("submit_price", s, args, err, IF err = "" THEN 1 ELSE 0)
    /\ UNCHANGED <<app, oracle, local, now, hist>>

POGetPriceCalls == NoArg("get_price")

POGetPrice ==
    /\ app = PriceOracle
    /\ \E s \in Principals, args \in POGetPriceCalls :
        LET err == POGetPriceErr(global, now) IN
        last' = Call("get_price", s, args, err, IF err = "" THEN 1 ELSE 0)
    /\ UNCHANGED <<app, oracle, global, local, now, hist>>

POTriggerBreakerCalls == NoArg("trigger_breaker")

POTriggerBreaker ==
    /\ app = PriceOracle
    /\ \E s \in Principals, args \in POTriggerBreakerCalls :
        LET err == POBreakerErr(s) IN
        /\ global' = IF err = "" THEN POTriggerGlobal(global) ELSE global
        /\ last' = Call("trigger_breaker", s, args, err, IF err = "" THEN 1 ELSE 0)
    /\ UNCHANGED <<app, oracle, local, now, hist>>

POResetBreakerCalls == NoArg("reset_breaker")

POResetBreaker ==
    /\ app = PriceOracle
    /\ \E s \in Principals, args \in POResetBreakerCalls :
        LET err == POBreakerErr(s) IN
        /\ global' = IF err = "" THEN POResetGlobal(global) ELSE global
        /\ last' = Call("reset_breaker", s, args, err, IF err = "" THEN 1 ELSE 0)
    /\ UNCHANGED <<app, oracle, local, now, hist>>

---------------------------------------------------------------------------
(* SimplePriceOracle                                                       *)

SimpleOnCreation(t) ==
    [current_price |-> INITIAL_PRICE, last_update |-> t, oracle_count |-> 0]

SimpleNoLocal == [opted |-> FALSE, oracle_auth |-> 0]

SimpleOnOptIn == [opted |-> TRUE, oracle_auth |-> 0]

SimpleAuthorizeErr(s, args) == IF ~(s = Creator) THEN "Unauthorized" ELSE ""

SimpleAuthorizeGlobal(g) == [g EXCEPT !.oracle_count = g.oracle_count + 1]

SimpleAuthorizeLocal(l, args) == l

SimpleMaxDeviation(price) == (price * SIMPLE_max_price_deviation) \div BPS

SimpleSubmitErr(g, l, s, args) ==
    IF ~(l[s].oracle_auth = 1) THEN "OracleNotAuthorized"
    ELSE IF ~(Len(args) >= 2) THEN "InvalidArgumentCount"
    ELSE IF ~BtoiOk(Arg(args, 1)) THEN "BtoiError"
    ELSE IF ~(AbsDiff(Btoi(Arg(args, 1)), g.current_price)
                <= SimpleMaxDeviation(g.current_price)) THEN "DeviationExceeded"
    ELSE ""

SimpleSubmitGlobal(g, args, t) ==
    [g EXCEPT !.current_price = Btoi(Arg(args, 1)), !.last_update = t]

SimpleGetPriceErr(g, t) ==
    IF t < g.last_update THEN "ArithmeticError"
    ELSE IF ~(t - g.last_update <= SIMPLE_staleness_threshold) THEN "StalePrice"
    ELSE IF g.current_price = 0 THEN "ReturnedZero"
    ELSE ""

SimpleOptIn ==
    /\ app = Simple
    /\ \E s \in Principals :
        LET err == OptInErr(local, s) IN
        /\ local' = IF err = "" THEN [local EXCEPT ![s] = SimpleOnOptIn] ELSE local
        /\ hist' = IF err = "" THEN HistOptIn(hist, s) ELSE hist
        /\ last' = Call("opt_in", s, <<>>, err, IF err = "" THEN 1 ELSE 0)
    /\ UNCHANGED <<app, oracle, global, now>>

SimpleCloseOut ==
    /\ app = Simple
    /\ \E s \in Principals :
        LET err == CloseOutErr(local, s) IN
        /\ local' = IF err = "" THEN [local EXCEPT ![s] = SimpleNoLocal] ELSE local
        /\ hist' = IF err = "" THEN HistCloseOut(hist, s) ELSE hist
        /\ last' = Call("close_out", s, <<>>, err, IF err = "" THEN 1 ELSE 0)
    /\ UNCHANGED <<app, oracle, global, now>>

SimpleAuthorizeCalls == OneArg("authorize", Principals, {})

SimpleAuthorize ==
    /\ app = Simple
    /\ \E s \in Principals, args \in SimpleAuthorizeCalls :
        LET err == SimpleAuthorizeErr(s, args) IN
        /\ err = "" => global.oracle_count < MaxCount
        /\ global' = IF err = "" THEN SimpleAuthorizeGlobal(global) ELSE global
        /\ local' = IF err = "" THEN SimpleAuthorizeLocal(local, args) ELSE local
        /\ hist' = IF err = "" THEN HistAuthorize(hist, local, args) ELSE hist
        /\ last' = Call("authorize", s, args, err, IF err = "" THEN 1 ELSE 0)
    /\ UNCHANGED <<app, oracle, now>>

SimpleSubmitPriceCalls == OneArg("submit", PriceArgs, {Itob(260000)})

SimpleSubmitPrice ==
    /\ app = Simple
    /\ \E s \in Principals, args \in SimpleSubmitPriceCalls :
        LET err == SimpleSubmitErr(global, local, s, args) IN
        /\ global' = IF err = "" THEN SimpleSubmitGlobal(global, args, now) ELSE global
        /\ last' = Call("submit", s, args, err, IF err = "" THEN 1 ELSE 0)
    /\ UNCHANGED <<app, oracle, local, now, hist>>

SimpleGetPriceCalls == NoArg("get_price")

SimpleGetPrice ==
    /\ app = Simple
    /\ \E s \in Principals, args \in SimpleGetPriceCalls :
        LET err == SimpleGetPriceErr(global, now) IN
        last' = Call("get_price", s, args, err,
                     IF err = "" THEN global.current_price ELSE 0)
    /\ UNCHANGED <<app, oracle, global, local, now, hist>>

---------------------------------------------------------------------------
(* Transaction groups                                                      *)

\* Global.group_size() and Gtxn[0]: how many transactions the group holds
\* and what its first one is.  Alone, or first in its group, the
\* application call is itself Gtxn[0].
AppAddress == "app_address"

AloneGroup == [size |-> 1, type |-> "appl", receiver |-> "", amount |-> 0]

CallFirstGroup == [size |-> 2, type |-> "appl", receiver |-> "", amount |-> 0]

PaymentGroup(receiver, amount) ==
    [size |-> 2, type |-> "pay", receiver |-> receiver, amount |-> amount]

PaymentAmounts == {999, 1000}

Groups ==
    {AloneGroup, CallFirstGroup}
        \cup {PaymentGroup(AppAddress, a) : a \in PaymentAmounts}
        \cup {PaymentGroup("alice", 1000)}

\* What Btoi accepts of a tuple of arguments.
AllBtoiOk(args, idx) == \A i \in idx : BtoiOk(Arg(args, i))

\* Calls of a method with the argument tuples `tuples` (each without the
\* method name), and one call that carries no argument at all.
WithArgs(name, tuples) == {<<name>>} \cup {<<name>> \o t : t \in tuples}

---------------------------------------------------------------------------
(* RiskManager                                                             *)

RiskOnCreation(t) ==
    [total_risk_exposure |-> 0, liquidation_pool |-> 0,
     system_health |-> INITIAL_SYSTEM_HEALTH, last_risk_update |-> t]

RiskNoLocal ==
    [opted |-> FALSE, user_risk_score |-> 0, user_delta_exposure |-> 0,
     user_liquidation_price |-> 0]

\* OptIn is approved without a write: the account holds empty local state.
RiskOnOptIn == [RiskNoLocal EXCEPT !.opted = TRUE]

\* (mutant) an empty position scores 0.
RiskScore_ZeroForEmpty(collateral, balance) ==
    IF balance > 0 THEN (collateral * BPS) \div balance ELSE 0

\* collateral * 10000 / balance, or 10000 for a zero balance.
RiskScore(collateral, balance) ==
    IF balance > 0 THEN (collateral * BPS) \div balance ELSE BPS

\* App.localPut fails for an account that has not opted in.
RiskCalculateRiskErr(l, s, args) ==
    IF ~(Len(args) = 4) THEN "InvalidArgumentCount"
    ELSE IF ~AllBtoiOk(args, 1 .. 3) THEN "BtoiError"
    ELSE IF ~l[s].opted THEN "NotOptedIn"
    ELSE ""

RiskCalculateRiskLocal(l, s, args) ==
    LET score == RiskScore(Btoi(Arg(args, 1)), Btoi(Arg(args, 2))) IN
    [l EXCEPT ![s].user_risk_score = score, ![s].user_liquidation_price = score]

\* (mutant) the verdict is taken from the ratio in percent, not the ratio
\* calculate_risk_score stores.
RiskCheckLiquidationRet_Percent(args) ==
    IF (IF Btoi(Arg(args, 3)) > 0
        THEN (Btoi(Arg(args, 2)) * 100) \div Btoi(Arg(args, 3))
        ELSE 100) < LIQUIDATION_THRESHOLD
    THEN 1 ELSE 0

\* check_liquidation reads arguments 2, 3 and 4 and returns the verdict:
\* a Return of 0 rejects the call.
RiskCheckLiquidationRet(args) ==
    IF RiskScore(Btoi(Arg(args, 2)), Btoi(Arg(args, 3))) < LIQUIDATION_THRESHOLD
    THEN 1 ELSE 0

RiskCheckLiquidationErr(args) ==
    IF ~(Len(args) = 5) THEN "InvalidArgumentCount"
    ELSE IF ~AllBtoiOk(args, 2 .. 4) THEN "BtoiError"
    ELSE IF RiskCheckLiquidationRet(args) = 0 THEN "ReturnedZero"
    ELSE ""

RiskExecuteLiquidationErr(args, group) ==
    IF ~(Len(args) = 5) THEN "InvalidArgumentCount"
    ELSE IF ~(group.size >= 2) THEN "GroupTooSmall"
    ELSE IF ~AllBtoiOk(args, 2 .. 3) THEN "BtoiError"
    ELSE IF ~(group.type = "pay") THEN "GroupPaymentMismatch"
    ELSE IF ~(group.receiver = AppAddress) THEN "GroupPaymentMismatch"
    ELSE ""

\* (mutant) the whole penalty goes to the pool.
RiskProtocolFee_WholePenalty(amount) == (amount * LIQUIDATION_PENALTY) \div BPS

RiskProtocolFee(amount) == ((amount * LIQUIDATION_PENALTY) \div BPS) \div 2

RiskExecuteLiquidationGlobal(g, args) ==
    [g EXCEPT !.liquidation_pool = g.liquidation_pool
                                     + RiskProtocolFee(Btoi(Arg(args, 2)))]

RiskUpdateHealthErr(s, args) ==
    IF ~(s = Creator) THEN "Unauthorized"
    ELSE IF ~(Len(args) = 2) THEN "InvalidArgumentCount"
    ELSE IF ~BtoiOk(Arg(args, 1)) THEN "BtoiError"
    ELSE ""

RiskUpdateHealthGlobal(g, args, t) ==
    [g EXCEPT !.system_health = Btoi(Arg(args, 1)), !.last_risk_update = t]

RiskCalculateDeltaErr(l, s, args) ==
    IF ~(Len(args) = 4) THEN "InvalidArgumentCount"
    ELSE IF ~AllBtoiOk(args, 1 .. 3) THEN "BtoiError"
    ELSE IF ~l[s].opted THEN "NotOptedIn"
    ELSE ""

\* (mutant) the exposure is stored for every account.
RiskCalculateDeltaLocal_AllAccounts(l, s, args) ==
    [p \in DOMAIN l |->
        [l[p] EXCEPT !.user_delta_exposure =
                        (Btoi(Arg(args, 1)) * Btoi(Arg(args, 3))) \div BPS]]

RiskCalculateDeltaLocal(l, s, args) ==
    [l EXCEPT ![s].user_delta_exposure =
                  (Btoi(Arg(args, 1)) * Btoi(Arg(args, 3))) \div BPS]

\* (collateral, balance, price) of the risk calls.
RiskFigures ==
    {<<Itob(100), Itob(100), Itob(250000)>>,
     <<Itob(100), Itob(200), Itob(250000)>>,
     <<Itob(100), Itob(200), Itob(260000)>>,
     <<Itob(100), Itob(0), Itob(250000)>>}

\* A position of 1% collateral, below 120 basis points.
RiskCheckFigures == RiskFigures \cup {<<Itob(1), Itob(100), Itob(250000)>>}

\* check_liquidation and execute_liquidation carry an account first.
RiskCheckArgs == {<<"alice">> \o f : f \in RiskCheckFigures}

RiskLiquidationArgs ==
    {<<"alice", Itob(1000), Itob(250000), Itob(0)>>,
     <<"alice", Itob(1999), Itob(250000), Itob(0)>>}

\* (balance, price, volatility) of calculate_delta.
RiskDeltaFigures == {<<Itob(200), Itob(250000), Itob(1500)>>}

HealthArgs == {Itob(5000), LongBytes}

MaxLiquidationPool == MaxCount * RiskProtocolFee(1000)

\* The accounts that send calls to the RiskManager in the model: the
\* creator and one other.
RiskSenders == {Creator, "alice"}

RiskOptIn ==
    /\ app = RiskManager
    /\ \E s \in RiskSenders :
        LET err == OptInErr(local, s) IN
        /\ local' = IF err = "" THEN [local EXCEPT ![s] = RiskOnOptIn] ELSE local
        /\ last' = Call("opt_in", s, <<>>, err, IF err = "" THEN 1 ELSE 0)
    /\ UNCHANGED <<app, oracle, global, now, hist>>

RiskCloseOut ==
    /\ app = RiskManager
    /\ \E s \in RiskSenders :
        LET err == CloseOutErr(local, s) IN
        /\ local' = IF err = "" THEN [local EXCEPT ![s] = RiskNoLocal] ELSE local
        /\ last' = Call("close_out", s, <<>>, err, IF err = "" THEN 1 ELSE 0)
    /\ UNCHANGED <<app, oracle, global, now, hist>>

RiskCalculateRiskCalls == WithArgs("calculate_risk", RiskFigures)

RiskCalculateRisk ==
    /\ app = RiskManager
    /\ \E s \in RiskSenders, args \in RiskCalculateRiskCalls :
        LET err == RiskCalculateRiskErr(local, s, args) IN
        /\ local' = IF err = "" THEN RiskCalculateRiskLocal(local, s, args) ELSE local
        /\ last' = Call("calculate_risk", s, args, err, IF err = "" THEN 1 ELSE 0)
    /\ UNCHANGED <<app, oracle, global, now, hist>>

RiskCheckLiquidationCalls == WithArgs("check_liquidation", RiskCheckArgs)

RiskCheckLiquidation ==
    /\ app = RiskManager
    /\ \E s \in RiskSenders, args \in RiskCheckLiquidationCalls :
        LET err == RiskCheckLiquidationErr(args) IN
        last' = Call("check_liquidation", s, args, err, IF err = "" THEN 1 ELSE 0)
    /\ UNCHANGED <<app, oracle, global, local, now, hist>>

RiskExecuteLiquidationCalls == WithArgs("execute_liquidation", RiskLiquidationArgs)

\* (mutant) the liquidation is refused unless the account's stored score is
\* below the threshold.
RiskExecuteLiquidation_ChecksScore ==
    /\ app = RiskManager
    /\ \E s \in RiskSenders, group \in Groups,
          args \in RiskExecuteLiquidationCalls :
        LET base == RiskExecuteLiquidationErr(args, group)
            err == IF base # "" THEN base
                   ELSE IF ~(local[Arg(args, 1)].user_risk_score
                                < LIQUIDATION_THRESHOLD) THEN "NotEligible"
                   ELSE ""
        IN
        /\ err = "" => RiskExecuteLiquidationGlobal(global, args).liquidation_pool
                          <= MaxLiquidationPool
        /\ global' = IF err = "" THEN RiskExecuteLiquidationGlobal(global, args)
                     ELSE global
        /\ last' = GroupCall("execute_liquidation", s, args, group, err,
                             IF err = "" THEN 1 ELSE 0)
    /\ UNCHANGED <<app, oracle, local, now, hist>>

\* (mutant) the liquidation is refused while the oracle's breaker is
\* tripped or its price is stale.
RiskExecuteLiquidation_OracleGated ==
    /\ app = RiskManager
    /\ \E s \in RiskSenders, group \in Groups,
          args \in RiskExecuteLiquidationCalls :
        LET base == RiskExecuteLiquidationErr(args, group)
            err == IF base # "" \/ oracle = NoOracle THEN base
                   ELSE EntGetPriceErr(oracle, now)
        IN
        /\ err = "" => RiskExecuteLiquidationGlobal(global, args).liquidation_pool
                          <= MaxLiquidationPool
        /\ global' = IF err = "" THEN RiskExecuteLiquidationGlobal(global, args)
                     ELSE global
        /\ last' = GroupCall("execute_liquidation", s, args, group, err,
                             IF err = "" THEN 1 ELSE 0)
    /\ UNCHANGED <<app, oracle, local, now, hist>>

RiskExecuteLiquidation ==
    /\ app = RiskManager
    /\ \E s \in RiskSenders, group \in Groups,
          args \in RiskExecuteLiquidationCalls :
        LET err == RiskExecuteLiquidationErr(args, group) IN
        /\ err = "" => RiskExecuteLiquidationGlobal(global, args).liquidation_pool
                          <= MaxLiquidationPool
        /\ global' = IF err = "" THEN RiskExecuteLiquidationGlobal(global, args)
                     ELSE global
        /\ last' = GroupCall("execute_liquidation", s, args, group, err,
                             IF err = "" THEN 1 ELSE 0)
    /\ UNCHANGED <<app, oracle, local, now, hist>>

RiskUpdateHealthCalls == OneArg("update_health", HealthArgs, {Itob(5000)})

RiskUpdateHealth ==
    /\ app = RiskManager
    /\ \E s \in RiskSenders, args \in RiskUpdateHealthCalls :
        LET err == RiskUpdateHealthErr(s, args) IN
        /\ global' = IF err = "" THEN RiskUpdateHealthGlobal(global, args, now)
                     ELSE global
        /\ last' = Call("update_health", s, args, err, IF err = "" THEN 1 ELSE 0)
    /\ UNCHANGED <<app, oracle, local, now, hist>>

RiskCalculateDeltaCalls == WithArgs("calculate_delta", RiskDeltaFigures)

RiskCalculateDelta ==
    /\ app = RiskManager
    /\ \E s \in RiskSenders, args \in RiskCalculateDeltaCalls :
        LET err == RiskCalculateDeltaErr(local, s, args) IN
        /\ local' = IF err = "" THEN RiskCalculateDeltaLocal(local, s, args) ELSE local
        /\ last' = Call("calculate_delta", s, args, err, IF err = "" THEN 1 ELSE 0)
    /\ UNCHANGED <<app, oracle, global, now, hist>>

---------------------------------------------------------------------------
(* RebalanceEngine                                                         *)

\* The program routes no OptIn: no account holds local state.
RebNoLocal == [opted |-> FALSE]

RebOnCreation(t) ==
    [last_rebalance |-> t, current_delta |-> 0, target_delta |-> 0,
     funding_rate |-> 0, yield_pool |-> 0, rebalance_count |-> 0]

RebPortfolioValue(args) == (Btoi(Arg(args, 1)) * Btoi(Arg(args, 3))) \div PRICE_SCALE

RebCollateralValue(args) == (Btoi(Arg(args, 2)) * Btoi(Arg(args, 3))) \div PRICE_SCALE

\* (mutant) the subtraction is signed: no call fails for its figures.
RebCalculateDeltaErr_Signed(args) ==
    IF ~(Len(args) = 5) THEN "InvalidArgumentCount"
    ELSE IF ~AllBtoiOk(args, 1 .. 4) THEN "BtoiError"
    ELSE ""

\* The subtraction is unsigned and only made when price_change is not 0.
RebCalculateDeltaErr(args) ==
    IF ~(Len(args) = 5) THEN "InvalidArgumentCount"
    ELSE IF ~AllBtoiOk(args, 1 .. 4) THEN "BtoiError"
    ELSE IF Btoi(Arg(args, 4)) # 0 /\ RebPortfolioValue(args) < RebCollateralValue(args)
         THEN "ArithmeticError"
    ELSE ""

RebCurrentDelta(args) ==
    IF Btoi(Arg(args, 4)) # 0
    THEN ((RebPortfolioValue(args) - RebCollateralValue(args)) * BPS)
             \div Btoi(Arg(args, 4))
    ELSE 0

RebCalculateDeltaGlobal(g, args) == [g EXCEPT !.current_delta = RebCurrentDelta(args)]

\* (mutant) either condition is enough.
RebCheckRebalanceRet_Either(g, t) ==
    IF \/ t - g.last_rebalance >= MIN_REBALANCE_INTERVAL
       \/ AbsDiff(g.current_delta, g.target_delta) > REBALANCE_THRESHOLD
    THEN 1 ELSE 0

\* (mutant) the time since the last rebalance is not looked at.
RebCheckRebalanceRet_DeltaOnly(g, t) ==
    IF AbsDiff(g.current_delta, g.target_delta) > REBALANCE_THRESHOLD
    THEN 1 ELSE 0

RebCheckRebalanceRet(g, t) ==
    IF /\ t - g.last_rebalance >= MIN_REBALANCE_INTERVAL
       /\ AbsDiff(g.current_delta, g.target_delta) > REBALANCE_THRESHOLD
    THEN 1 ELSE 0

RebCheckRebalanceErr(g, t) ==
    IF t < g.last_rebalance THEN "ArithmeticError"
    ELSE IF RebCheckRebalanceRet(g, t) = 0 THEN "ReturnedZero"
    ELSE ""

\* (mutant) the slippage is not looked at.
RebExecuteRebalanceErr_NoSlippage(args, group) ==
    IF ~(Len(args) = 4) THEN "InvalidArgumentCount"
    ELSE IF ~(group.size >= 2) THEN "GroupTooSmall"
    ELSE IF ~AllBtoiOk(args, 1 .. 3) THEN "BtoiError"
    ELSE ""

RebExecuteRebalanceErr(args, group) ==
    IF ~(Len(args) = 4) THEN "InvalidArgumentCount"
    ELSE IF ~(group.size >= 2) THEN "GroupTooSmall"
    ELSE IF ~AllBtoiOk(args, 1 .. 3) THEN "BtoiError"
    ELSE IF ~(Btoi(Arg(args, 3)) <= MAX_SLIPPAGE) THEN "SlippageExceeded"
    ELSE ""

RebExecuteRebalanceGlobal(g, t) ==
    [g EXCEPT !.last_rebalance = t, !.rebalance_count = g.rebalance_count + 1]

\* (mutant) the rate has no bound.
RebUpdateFundingErr_Unbounded(args) ==
    IF ~(Len(args) = 2) THEN "InvalidArgumentCount"
    ELSE IF ~BtoiOk(Arg(args, 1)) THEN "BtoiError"
    ELSE ""

RebUpdateFundingErr(args) ==
    IF ~(Len(args) = 2) THEN "InvalidArgumentCount"
    ELSE IF ~BtoiOk(Arg(args, 1)) THEN "BtoiError"
    ELSE IF ~(Btoi(Arg(args, 1)) <= MAX_FUNDING_RATE) THEN "InvalidFundingRate"
    ELSE ""

RebUpdateFundingGlobal(g, args) == [g EXCEPT !.funding_rate = Btoi(Arg(args, 1))]

\* (mutant) the payment's amount is not looked at, as in RiskManager's
\* execute_liquidation.
RebDistributeYieldErr_AnyAmount(args, group) ==
    IF ~(Len(args) = 2) THEN "InvalidArgumentCount"
    ELSE IF ~(group.size >= 2) THEN "GroupTooSmall"
    ELSE IF ~BtoiOk(Arg(args, 1)) THEN "BtoiError"
    ELSE IF ~(group.type = "pay") THEN "GroupPaymentMismatch"
    ELSE IF ~(group.receiver = AppAddress) THEN "GroupPaymentMismatch"
    ELSE ""

RebDistributeYieldErr(args, group) ==
    IF ~(Len(args) = 2) THEN "InvalidArgumentCount"
    ELSE IF ~(group.size >= 2) THEN "GroupTooSmall"
    ELSE IF ~BtoiOk(Arg(args, 1)) THEN "BtoiError"
    ELSE IF ~(group.type = "pay") THEN "GroupPaymentMismatch"
    ELSE IF ~(group.receiver = AppAddress) THEN "GroupPaymentMismatch"
    ELSE IF ~(group.amount = Btoi(Arg(args, 1))) THEN "GroupPaymentMismatch"
    ELSE ""

RebDistributeYieldGlobal(g, args) ==
    [g EXCEPT !.yield_pool = g.yield_pool + Btoi(Arg(args, 1))]

\* (mutant) the ratio is left as computed, without the cap.
RebHedgeRatio_Uncapped(args) ==
    (Btoi(Arg(args, 3)) * Btoi(Arg(args, 2))) \div BPS

\* The capped ratio is computed into a scratch slot and dropped.
RebHedgeRatio(args) ==
    LET hedge_ratio == (Btoi(Arg(args, 3)) * Btoi(Arg(args, 2))) \div BPS IN
    IF hedge_ratio > MAX_HEDGE_RATIO THEN MAX_HEDGE_RATIO ELSE hedge_ratio

RebCalculateHedgeErr(args) ==
    IF ~(Len(args) = 4) THEN "InvalidArgumentCount"
    ELSE IF ~AllBtoiOk(args, 1 .. 3) THEN "BtoiError"
    ELSE ""

\* (mutant) any sender may set the target.
RebSetTargetDeltaErr_AnySender(s, args) ==
    IF ~(Len(args) = 2) THEN "InvalidArgumentCount"
    ELSE IF ~BtoiOk(Arg(args, 1)) THEN "BtoiError"
    ELSE ""

RebSetTargetDeltaErr(s, args) ==
    IF ~(s = Creator) THEN "Unauthorized"
    ELSE IF ~(Len(args) = 2) THEN "InvalidArgumentCount"
    ELSE IF ~BtoiOk(Arg(args, 1)) THEN "BtoiError"
    ELSE ""

\* (mutant) a new target starts the rebalance counter again.
RebSetTargetDeltaGlobal_ResetsCount(g, args) ==
    [g EXCEPT !.target_delta = Btoi(Arg(args, 1)), !.rebalance_count = 0]

RebSetTargetDeltaGlobal(g, args) == [g EXCEPT !.target_delta = Btoi(Arg(args, 1))]

\* (total_supply, total_collateral, price, price_change)
RebDeltaFigures ==
    {<<Itob(6000), Itob(1000), Itob(250000), Itob(10000)>>,
     <<Itob(6000), Itob(1000), Itob(250000), Itob(9990)>>,
     <<Itob(1000), Itob(2000), Itob(250000), Itob(10000)>>,
     <<Itob(1000), Itob(2000), Itob(250000), Itob(0)>>}

\* (amount, direction, slippage)
RebRebalanceFigures ==
    {<<Itob(1000), Itob(1), Itob(300)>>, <<Itob(1000), Itob(0), Itob(301)>>}

FundingRates == {Itob(1000000), Itob(1000001)}

YieldAmounts == {Itob(1000)}

\* (portfolio_value, volatility, correlation)
RebHedgeFigures ==
    {<<Itob(1000), Itob(5000), Itob(8000)>>, <<Itob(1000), Itob(20000), Itob(10000)>>}

TargetDeltas == {Itob(750), LongBytes}

MaxYieldPool == MaxCount * 1000

\* The accounts that send calls to the RebalanceEngine in the model: the
\* creator and one other.
RebSenders == {Creator, "alice"}

\* History: the total of the payments made to the RebalanceEngine's
\* address in its committed groups.
HistPaid(h, group) ==
    IF group.type = "pay" /\ group.receiver = AppAddress
    THEN [h EXCEPT !.engine_paid = @ + group.amount]
    ELSE h

RebCalculateDeltaCalls == WithArgs("calculate_delta", RebDeltaFigures)

RebCalculateDelta ==
    /\ app = RebalanceEngine
    /\ \E s \in RebSenders, args \in RebCalculateDeltaCalls :
        LET err == RebCalculateDeltaErr(args) IN
        /\ global' = IF err = "" THEN RebCalculateDeltaGlobal(global, args) ELSE global
        /\ last' = Call("calculate_delta", s, args, err, IF err = "" THEN 1 ELSE 0)
    /\ UNCHANGED <<app, oracle, local, now, hist>>

RebCheckRebalanceCalls == NoArg("check_rebalance")

RebCheckRebalance ==
    /\ app = RebalanceEngine
    /\ \E s \in RebSenders, args \in RebCheckRebalanceCalls :
        LET err == RebCheckRebalanceErr(global, now) IN
        last' = Call("check_rebalance", s, args, err, IF err = "" THEN 1 ELSE 0)
    /\ UNCHANGED <<app, oracle, global, local, now, hist>>

RebExecuteRebalanceCalls == WithArgs("execute_rebalance", RebRebalanceFigures)

\* (mutant) the rebalance is refused unless check_rebalance_needed holds.
RebExecuteRebalance_Gated ==
    /\ app = RebalanceEngine
    /\ \E s \in RebSenders, group \in {AloneGroup, PaymentGroup(AppAddress, 1000)},
          args \in RebExecuteRebalanceCalls :
        LET base == RebExecuteRebalanceErr(args, group)
            err == IF base # "" THEN base
                   ELSE IF RebCheckRebalanceRet(global, now) = 0 THEN "NotNeeded"
                   ELSE ""
        IN
        /\ err = "" => global.rebalance_count < MaxCount
        /\ global' = IF err = "" THEN RebExecuteRebalanceGlobal(global, now) ELSE global
        /\ hist' = IF err = "" THEN HistPaid(hist, group) ELSE hist
        /\ last' = GroupCall("execute_rebalance", s, args, group, err,
                             IF err = "" THEN 1 ELSE 0)
    /\ UNCHANGED <<app, oracle, local, now>>

RebExecuteRebalance ==
    /\ app = RebalanceEngine
    /\ \E s \in RebSenders, group \in {AloneGroup, PaymentGroup(AppAddress, 1000)},
          args \in RebExecuteRebalanceCalls :
        LET err == RebExecuteRebalanceErr(args, group) IN
        /\ err = "" => global.rebalance_count < MaxCount
        /\ global' = IF err = "" THEN RebExecuteRebalanceGlobal(global, now) ELSE global
        /\ hist' = IF err = "" THEN HistPaid(hist, group) ELSE hist
        /\ last' = GroupCall("execute_rebalance", s, args, group, err,
                             IF err = "" THEN 1 ELSE 0)
    /\ UNCHANGED <<app, oracle, local, now>>

RebUpdateFundingCalls == OneArg("update_funding", FundingRates, {})

\* (mutant) the rate is stored before its bound is checked, and the store
\* survives the failed check.
RebUpdateFunding_PartialWrite ==
    /\ app = RebalanceEngine
    /\ \E s \in RebSenders, args \in RebUpdateFundingCalls :
        LET err == RebUpdateFundingErr(args) IN
        /\ global' = IF err \in {"", "InvalidFundingRate"}
                     THEN RebUpdateFundingGlobal(global, args) ELSE global
        /\ last' = Call("update_funding", s, args, err, IF err = "" THEN 1 ELSE 0)
    /\ UNCHANGED <<app, oracle, local, now, hist>>

RebUpdateFunding ==
    /\ app = RebalanceEngine
    /\ \E s \in RebSenders, args \in RebUpdateFundingCalls :
        LET err == RebUpdateFundingErr(args) IN
        /\ global' = IF err = "" THEN RebUpdateFundingGlobal(global, args) ELSE global
        /\ last' = Call("update_funding", s, args, err, IF err = "" THEN 1 ELSE 0)
    /\ UNCHANGED <<app, oracle, local, now, hist>>

RebDistributeYieldCalls == OneArg("distribute_yield", YieldAmounts, {})

RebDistributeYield ==
    /\ app = RebalanceEngine
    /\ \E s \in RebSenders, group \in Groups,
          args \in RebDistributeYieldCalls :
        LET err == RebDistributeYieldErr(args, group) IN
        /\ err = "" => RebDistributeYieldGlobal(global, args).yield_pool <= MaxYieldPool
        /\ global' = IF err = "" THEN RebDistributeYieldGlobal(global, args) ELSE global
        /\ hist' = IF err = "" THEN HistPaid(hist, group) ELSE hist
        /\ last' = GroupCall("distribute_yield", s, args, group, err,
                             IF err = "" THEN 1 ELSE 0)
    /\ UNCHANGED <<app, oracle, local, now>>

\* A group of three: a first transaction and two distribute_yield calls of
\* the same amount.  Each call looks at Gtxn[0]; the second runs on the
\* store the first has written, and the group commits only if both are
\* approved.
ThreeGroup(group) == [group EXCEPT !.size = 3]

RebDistributeYieldTwice ==
    /\ app = RebalanceEngine
    /\ \E s \in RebSenders, group \in Groups \ {AloneGroup},
          args \in RebDistributeYieldCalls :
        LET g3 == ThreeGroup(group)
            err == RebDistributeYieldErr(args, g3)
            first == RebDistributeYieldGlobal(global, args)
            second == RebDistributeYieldGlobal(first, args)
        IN
        /\ err = "" => second.yield_pool <= MaxYieldPool
        /\ global' = IF err = "" THEN second ELSE global
        /\ hist' = IF err = "" THEN HistPaid(hist, g3) ELSE hist
        /\ last' = GroupCall("distribute_yield_twice", s, args, g3, err,
                             IF err = "" THEN 1 ELSE 0)
    /\ UNCHANGED <<app, oracle, local, now>>

RebCalculateHedgeCalls == WithArgs("calculate_hedge", RebHedgeFigures)

RebCalculateHedge ==
    /\ app = RebalanceEngine
    /\ \E s \in RebSenders, args \in RebCalculateHedgeCalls :
        LET err == RebCalculateHedgeErr(args) IN
        last' = Call("calculate_hedge", s, args, err, IF err = "" THEN 1 ELSE 0)
    /\ UNCHANGED <<app, oracle, global, local, now, hist>>

RebSetTargetDeltaCalls == OneArg("set_target_delta", TargetDeltas, {Itob(750)})

RebSetTargetDelta ==
    /\ app = RebalanceEngine
    /\ \E s \in RebSenders, args \in RebSetTargetDeltaCalls :
        LET err == RebSetTargetDeltaErr(s, args) IN
        /\ global' = IF err = "" THEN RebSetTargetDeltaGlobal(global, args) ELSE global
        /\ last' = Call("set_target_delta", s, args, err, IF err = "" THEN 1 ELSE 0)
    /\ UNCHANGED <<app, oracle, local, now, hist>>

---------------------------------------------------------------------------
(* The ledger clock and the deployment                                     *)

\* (mutant) the clock may go back.
Tick_AnyTime ==
    /\ \E t \in Times : t # now /\ now' = t
    /\ UNCHANGED <<app, oracle, global, local, last, hist>>

Tick ==
    /\ \E t \in Times : t > now /\ now' = t
    /\ UNCHANGED <<app, oracle, global, local, last, hist>>

Created == Call("create", Creator, <<>>, "", 1)

NoHist ==
    [ever_opted |-> {}, granted |-> {}, top_rep |-> [p \in Principals |-> 0],
     engine_paid |-> 0]

InitEnterprise ==
    /\ oracle = NoOracle
    /\ app = Enterprise
    /\ now = T0
    /\ global = EntOnCreation(T0)
    /\ local = [p \in Principals |-> EntNoLocal]
    /\ last = Created
    /\ hist = NoHist

NextEnterprise ==
    \/ EntOptIn
    \/ EntCloseOut
    \/ EntAuthorize
    \/ EntSubmitPrice
    \/ EntGetPrice
    \/ EntEmergencyPause
    \/ EntResume
    \/ Tick

SpecEnterprise == InitEnterprise /\ [][NextEnterprise]_vars

InitPriceOracle ==
    /\ oracle = NoOracle
    /\ app = PriceOracle
    /\ now = T0
    /\ global = POOnCreation(T0)
    /\ local = [p \in Principals |-> PONoLocal]
    /\ last = Created
    /\ hist = NoHist

NextPriceOracle ==
    \/ POAddOracle
    \/ POSubmitPrice
    \/ POGetPrice
    \/ POTriggerBreaker
    \/ POResetBreaker
    \/ Tick

SpecPriceOracle == InitPriceOracle /\ [][NextPriceOracle]_vars

InitSimple ==
    /\ oracle = NoOracle
    /\ app = Simple
    /\ now = T0
    /\ global = SimpleOnCreation(T0)
    /\ local = [p \in Principals |-> SimpleNoLocal]
    /\ last = Created
    /\ hist = NoHist

NextSimple ==
    \/ SimpleOptIn
    \/ SimpleCloseOut
    \/ SimpleAuthorize
    \/ SimpleSubmitPrice
    \/ SimpleGetPrice
    \/ Tick

SpecSimple == InitSimple /\ [][NextSimple]_vars

InitRiskManager ==
    /\ oracle = NoOracle
    /\ app = RiskManager
    /\ now = T0
    /\ global = RiskOnCreation(T0)
    /\ local = [p \in Principals |-> RiskNoLocal]
    /\ last = Created
    /\ hist = NoHist

NextRiskManager ==
    \/ RiskOptIn
    \/ RiskCloseOut
    \/ RiskCalculateRisk
    \/ RiskCheckLiquidation
    \/ RiskExecuteLiquidation
    \/ RiskUpdateHealth
    \/ RiskCalculateDelta
    \/ Tick

SpecRiskManager == InitRiskManager /\ [][NextRiskManager]_vars

InitRebalanceEngine ==
    /\ oracle = NoOracle
    /\ app = RebalanceEngine
    /\ now = T0
    /\ global = RebOnCreation(T0)
    /\ local = [p \in Principals |-> RebNoLocal]
    /\ last = Created
    /\ hist = NoHist

NextRebalanceEngine ==
    \/ RebCalculateDelta
    \/ RebCheckRebalance
    \/ RebExecuteRebalance
    \/ RebUpdateFunding
    \/ RebDistributeYield
    \/ RebCalculateHedge
    \/ RebSetTargetDelta
    \/ Tick

SpecRebalanceEngine == InitRebalanceEngine /\ [][NextRebalanceEngine]_vars

\* Any one of the oracle programs, deployed.
InitOracles == InitEnterprise \/ InitPriceOracle \/ InitSimple

NextOracles == NextEnterprise \/ NextPriceOracle \/ NextSimple

SpecOracles == InitOracles /\ [][NextOracles]_vars

\* Any one of the five programs, deployed.
Init == InitOracles \/ InitRiskManager \/ InitRebalanceEngine

Next == NextOracles \/ NextRiskManager \/ NextRebalanceEngine

Spec == Init /\ [][Next]_vars

\* EnterprisePriceOracle's submit handler on every well-typed store.  The
\* creator may install the program over an existing store
\* (UpdateApplication keeps the global and local state), so the handler can
\* meet stores that its own handlers never write, among them a local
\* oracle_auth of 1.
EntGlobalStores ==
    [current_price : {INITIAL_PRICE, 260000}, last_update : {T0},
     oracle_count : {0}, circuit_breaker : {0, 1},
     total_submissions : 0 .. (MaxCount - 1)]

EntLocalStores ==
    {EntNoLocal, EntOnOptIn, [EntOnOptIn EXCEPT !.oracle_auth = 1]}

InitEntSubmit ==
    /\ oracle = NoOracle
    /\ app = Enterprise
    /\ now \in Times
    /\ global \in EntGlobalStores
    /\ local \in [Principals -> EntLocalStores]
    /\ last = Created
    /\ hist = NoHist

NextEntSubmit == EntSubmitPrice

SpecEntSubmit == InitEntSubmit /\ [][NextEntSubmit]_vars

\* RebalanceEngine's check_rebalance_needed on the stores the engine can
\* hold: a last rebalance at T0 or one second later, the deltas that
\* calculate_delta stores for RebDeltaFigures, and the targets of
\* TargetDeltas.
RebGlobalStores ==
    [last_rebalance : {T0, T0 + 1}, current_delta : {0, 1250, 1251},
     target_delta : {0, 750}, funding_rate : {0}, yield_pool : {0},
     rebalance_count : {0, 1}]

InitRebCheck ==
    /\ oracle = NoOracle
    /\ app = RebalanceEngine
    /\ now \in Times
    /\ global \in RebGlobalStores
    /\ global.last_rebalance <= now
    /\ local = [p \in Principals |-> RebNoLocal]
    /\ last = Created
    /\ hist = NoHist

NextRebCheck == RebCheckRebalance

SpecRebCheck == InitRebCheck /\ [][NextRebCheck]_vars

\* The oracles at the bottom of the price range.  An accepted submission
\* lowers the price p by at most floor(p * 500 / 10000), so from the seed
\* the prices 21, 20 and 19 are met on the way down and no price below 19
\* follows any of them.  The stores are those of a deployment but for the
\* price, the submissions of EnterprisePriceOracle being counted from the
\* store on; in EnterprisePriceOracle and SimplePriceOracle alice holds an
\* oracle_auth of 1 (see EntLocalStores).
FloorPrices == {19, 20, 21}

FloorPriceInputs == {0, 18, 19, 20, 21, 22}

FloorPriceArgs == {Itob(p) : p \in FloorPriceInputs}

EntSubmitFloorCalls == OneArg("submit", FloorPriceArgs, {})

EntSubmitFloor ==
    /\ app = Enterprise
    /\ \E s \in Principals, args \in EntSubmitFloorCalls :
        LET err == EntSubmitErr(global, local, s, args) IN
        /\ err = "" => global.total_submissions < MaxCount
        /\ global' = IF err = "" THEN EntSubmitGlobal(global, args, now) ELSE global
        /\ local' = IF err = "" THEN EntSubmitLocal(local, s, now) ELSE local
        /\ hist' = IF err = "" THEN EntHistSubmit(hist, local', s) ELSE hist
        /\ last' = Call("submit", s, args, err, IF err = "" THEN 1 ELSE 0)
    /\ UNCHANGED <<app, oracle, now>>

POSubmitFloorCalls == OneArg("submit_price", FloorPriceArgs, {})

POSubmitFloor ==
    /\ app = PriceOracle
    /\ \E s \in Principals, args \in POSubmitFloorCalls :
        LET err == POSubmitErr(global, s, args) IN
        /\ global' = IF err = "" THEN POSubmitGlobal(global, args, now) ELSE global
        /\ last' = Call("submit_price", s, args, err, IF err = "" THEN 1 ELSE 0)
    /\ UNCHANGED <<app, oracle, local, now, hist>>

SimpleSubmitFloorCalls == OneArg("submit", FloorPriceArgs, {})

SimpleSubmitFloor ==
    /\ app = Simple
    /\ \E s \in Principals, args \in SimpleSubmitFloorCalls :
        LET err == SimpleSubmitErr(global, local, s, args) IN
        /\ global' = IF err = "" THEN SimpleSubmitGlobal(global, args, now) ELSE global
        /\ last' = Call("submit", s, args, err, IF err = "" THEN 1 ELSE 0)
    /\ UNCHANGED <<app, oracle, local, now, hist>>

InitOracleFloor ==
    /\ oracle = NoOracle
    /\ now = T0
    /\ last = Created
    /\ \E p \in FloorPrices :
        \/ /\ app = Enterprise
           /\ global = [EntOnCreation(T0) EXCEPT !.current_price = p]
           /\ local = [q \in Principals |->
                         IF q = "alice" THEN [EntOnOptIn EXCEPT !.oracle_auth = 1]
                         ELSE EntNoLocal]
           /\ hist = EntHistOptIn(NoHist, "alice")
        \/ /\ app = PriceOracle
           /\ global = [POOnCreation(T0) EXCEPT !.current_price = p]
           /\ local = [q \in Principals |-> PONoLocal]
           /\ hist = NoHist
        \/ /\ app = Simple
           /\ global = [SimpleOnCreation(T0) EXCEPT !.current_price = p]
           /\ local = [q \in Principals |->
                         IF q = "alice" THEN [SimpleOnOptIn EXCEPT !.oracle_auth = 1]
                         ELSE SimpleNoLocal]
           /\ hist = HistOptIn(NoHist, "alice")

NextOracleFloor ==
    \/ EntSubmitFloor
    \/ EntGetPrice
    \/ POSubmitFloor
    \/ POGetPrice
    \/ SimpleSubmitFloor
    \/ SimpleGetPrice

SpecOracleFloor == InitOracleFloor /\ [][NextOracleFloor]_vars

\* The RebalanceEngine's groups that carry a payment: distribute_yield
\* alone behind its first transaction, two distribute_yield calls behind
\* one first transaction, and execute_rebalance.
InitRebYield == InitRebalanceEngine

NextRebYield ==
    \/ RebDistributeYield
    \/ RebDistributeYieldTwice
    \/ RebExecuteRebalance
    \/ Tick

SpecRebYield == InitRebYield /\ [][NextRebYield]_vars

\* An engine with EnterprisePriceOracle deployed beside it.  The oracle's
\* store moves by its creator's emergency_pause and resume and goes stale
\* with the clock; the engines' programs hold no read of another
\* application's state, so their actions neither read nor write `oracle`.
OracleEmergencyPause ==
    /\ oracle.circuit_breaker = 0
    /\ oracle' = EntEmergencyPauseGlobal(oracle)
    /\ last' = Call("emergency_pause", Creator, <<"emergency_pause">>, "", 1)
    /\ UNCHANGED <<app, global, local, now, hist>>

OracleResume ==
    /\ oracle.circuit_breaker = 1
    /\ oracle' = EntResumeGlobal(oracle)
    /\ last' = Call("resume", Creator, <<"resume">>, "", 1)
    /\ UNCHANGED <<app, global, local, now, hist>>

InitBesideOracle ==
    /\ now = T0
    /\ last = Created
    /\ hist = NoHist
    /\ oracle = EntOnCreation(T0)
    /\ \/ /\ app = RiskManager
          /\ global = RiskOnCreation(T0)
          /\ local = [p \in Principals |-> RiskNoLocal]
       \/ /\ app = RebalanceEngine
          /\ global = RebOnCreation(T0)
          /\ local = [p \in Principals |-> RebNoLocal]

NextBesideOracle ==
    \/ OracleEmergencyPause
    \/ OracleResume
    \/ RiskOptIn
    \/ RiskCalculateRisk
    \/ RiskCheckLiquidation
    \/ RiskExecuteLiquidation
    \/ RebCalculateDelta
    \/ RebCheckRebalance
    \/ RebExecuteRebalance
    \/ Tick

SpecBesideOracle == InitBesideOracle /\ [][NextBesideOracle]_vars

\* The life of one oracle account in EnterprisePriceOracle: a store in
\* which alice is registered with an oracle_auth of 1 (see EntLocalStores),
\* and from it the calls an oracle account itself sends: submit, CloseOut
\* and OptIn.
InitEntOracleLife ==
    /\ oracle = NoOracle
    /\ app = Enterprise
    /\ now = T0
    /\ global = EntOnCreation(T0)
    /\ local = [p \in Principals |->
                  IF p = "alice" THEN [EntOnOptIn EXCEPT !.oracle_auth = 1]
                  ELSE EntNoLocal]
    /\ last = Created
    /\ hist = EntHistOptIn(NoHist, "alice")

NextEntOracleLife ==
    \/ EntOptIn
    \/ EntCloseOut
    \/ EntSubmitPrice
    \/ Tick

SpecEntOracleLife == InitEntOracleLife /\ [][NextEntOracleLife]_vars

\* EnterprisePriceOracle's price feed: from the store of InitEntOracleLife,
\* in which alice holds an oracle_auth of 1, the submissions, the reads,
\* the creator's pause and resume, and the clock.
InitEntFeed == InitEntOracleLife

NextEntFeed ==
    \/ EntSubmitPrice
    \/ EntGetPrice
    \/ EntEmergencyPause
    \/ EntResume
    \/ Tick

SpecEntFeed == InitEntFeed /\ [][NextEntFeed]_vars

---------------------------------------------------------------------------
(* Properties                                                              *)

\* A step that is an application call: the clock stands still, and `last`
\* describes the call.
CallStep(ops) == now' = now /\ last'.op \in ops

SubmitOps == {"submit", "submit_price"}

\* The call carries a price the program can decode.
HasPrice(call) == Len(call.args) >= 2 /\ BtoiOk(Arg(call.args, 1))

PriceOf(call) == Btoi(Arg(call.args, 1))

WithinBound(p, before) == AbsDiff(p, before) <= (before * 500) \div 10000

\* C1: in every oracle contract an accepted submit_price(p) has
\* |p - price_before| <= floor(price_before * 500 / 10000), and a submission
\* outside the bound is rejected and changes neither current_price nor
\* last_update.
C1_DeviationBound ==
    [][CallStep(SubmitOps) =>
        /\ Accepted(last') =>
             /\ HasPrice(last')
             /\ WithinBound(PriceOf(last'), global.current_price)
             /\ global'.current_price = PriceOf(last')
        /\ (HasPrice(last') /\ ~WithinBound(PriceOf(last'), global.current_price)) =>
             /\ ~Accepted(last')
             /\ global'.current_price = global.current_price
             /\ global'.last_update = global.last_update]_vars

\* 260000 was accepted from the seed, and now 300000 has been refused.
C1_Witness ==
    /\ app = PriceOracle
    /\ global.current_price = 260000
    /\ last.op = "submit_price" /\ last.err = "DeviationExceeded"
    /\ PriceOf(last) = 300000

\* C2: a registered oracle for which the creator's authorize has committed
\* has its submission, with the breaker clear, accepted exactly when it is
\* within the deviation bound (Scenario A: 260000 accepted from the seed
\* 250000 and committed, then 300000 rejected).
C2_AuthorizedSubmitAccepted ==
    [][(/\ app = Enterprise
        /\ CallStep({"submit"})
        /\ last'.sender \in hist.granted
        /\ local[last'.sender].opted
        /\ global.circuit_breaker = 0
        /\ HasPrice(last')) =>
          /\ Accepted(last') <=> WithinBound(PriceOf(last'), global.current_price)
          /\ Accepted(last') => global'.current_price = PriceOf(last')]_vars

C4_NoSubmitWhileBreaker ==
    [][(app = PriceOracle /\ global.circuit_breaker = 1) =>
        /\ CallStep({"submit_price"}) => ~Accepted(last')
        /\ global'.current_price = global.current_price]_vars

\* C5: in EnterprisePriceOracle and SimplePriceOracle a submit is accepted
\* only when the sender's local oracle_auth is 1; only an opted-in account
\* can hold that flag; a submit from an account without it is rejected and
\* changes no global and no local state.
C5_SubmitNeedsAuthFlag ==
    [][(app \in {Enterprise, Simple}) =>
        /\ \A p \in Principals : local[p].oracle_auth = 1 => local[p].opted
        /\ CallStep({"submit"}) =>
            /\ Accepted(last') =>
                 local[last'.sender].oracle_auth = 1 /\ local[last'.sender].opted
            /\ local[last'.sender].oracle_auth # 1 =>
                 ~Accepted(last') /\ global' = global /\ local' = local]_vars

C5_Witness ==
    /\ app \in {Enterprise, Simple}
    /\ last.op = "submit" /\ last.err = "OracleNotAuthorized"
    /\ ~local[last.sender].opted
    /\ last.sender \notin hist.ever_opted
    /\ HasPrice(last) /\ WithinBound(PriceOf(last), global.current_price)

\* C6: in PriceOracle a submit_price is accepted only from an account the
\* creator added with add_oracle; from any other sender it does not change
\* current_price.
C6_SubmitOnlyFromAddedOracle ==
    [][(/\ app = PriceOracle
        /\ CallStep({"submit_price"})
        /\ last'.sender \notin hist.granted) =>
          /\ ~Accepted(last')
          /\ global'.current_price = global.current_price]_vars

\* C7: once an account has opted in and the creator's authorize for it has
\* committed, its authorized flag is true.
C7_AuthorizeSetsFlag ==
    (app \in {Enterprise, Simple}) =>
        \A p \in hist.granted : local[p].opted => local[p].oracle_auth = 1

\* C8: authorize by the creator for an account that never opted in fails
\* and leaves the oracle counter and all other state as they were.
C8_AuthorizeNeedsRegistration ==
    [][(/\ app = Enterprise
        /\ CallStep({"authorize"})
        /\ last'.sender = Creator
        /\ Len(last'.args) >= 2
        /\ Arg(last'.args, 1) \notin hist.ever_opted) =>
          /\ ~Accepted(last')
          /\ global' = global
          /\ local' = local]_vars

\* C9: a controller-only operation (authorize / add_oracle, emergency_pause,
\* resume, trigger_breaker, reset_breaker, update_health, set_target_delta)
\* sent by anyone but the creator fails and changes no global and no local
\* state; update_health sent by the creator with a score sets system_health
\* to the score and last_risk_update to now.
ControllerOps ==
    {"authorize", "add_oracle", "emergency_pause", "resume", "trigger_breaker",
     "reset_breaker", "update_health", "set_target_delta"}

C9_ControllerOnly ==
    [][/\ (CallStep(ControllerOps) /\ last'.sender # Creator) =>
            /\ ~Accepted(last')
            /\ global' = global
            /\ local' = local
       /\ (/\ app = RiskManager
           /\ CallStep({"update_health"})
           /\ last'.sender = Creator
           /\ Len(last'.args) = 2
           /\ BtoiOk(Arg(last'.args, 1))) =>
            /\ Accepted(last')
            /\ global'.system_health = Btoi(Arg(last'.args, 1))
            /\ global'.last_risk_update = now
            /\ global'.liquidation_pool = global.liquidation_pool
            /\ global'.total_risk_exposure = global.total_risk_exposure
            /\ local' = local]_vars

\* The creator's update_health(5000) has committed after deployment, and
\* the same call from another account has just been refused.
C9_Witness ==
    /\ app = RiskManager
    /\ global.system_health = 5000
    /\ global.last_risk_update > T0
    /\ last.op = "update_health" /\ last.sender # Creator
    /\ last.err = "Unauthorized"
    /\ Len(last.args) = 2 /\ Btoi(Arg(last.args, 1)) = 5000

\* C10: an accepted submit at ledger time now writes current_price = the
\* new price, last_update = now, total_submissions + 1, the sender's
\* reputation + 1 and last_sub = now, and nothing else: the breaker, the
\* oracle counter, the sender's flag and every other account are unchanged.
C10_SubmitEffect ==
    [][(app = Enterprise /\ CallStep({"submit"}) /\ Accepted(last')) =>
        LET s == last'.sender IN
        /\ global'.current_price = PriceOf(last')
        /\ global'.last_update = now
        /\ global'.total_submissions = global.total_submissions + 1
        /\ global'.circuit_breaker = global.circuit_breaker
        /\ global'.oracle_count = global.oracle_count
        /\ DOMAIN global' = DOMAIN global
        /\ local'[s].oracle_rep = local[s].oracle_rep + 1
        /\ local'[s].last_sub = now
        /\ local'[s].oracle_auth = local[s].oracle_auth
        /\ local'[s].opted = local[s].opted
        /\ \A q \in Principals \ {s} : local'[q] = local[q]]_vars

C10_Witness ==
    /\ app = Enterprise
    /\ last.op = "submit" /\ Accepted(last)
    /\ global.current_price = 260000 /\ PriceOf(last) = 260000
    /\ global.last_update = now /\ now > T0
    /\ local[last.sender].last_sub = now
    /\ local[last.sender].oracle_rep = INITIAL_REPUTATION + 1
    /\ \E q \in Principals \ {last.sender} : local[q].oracle_auth = 1

\* C11: in every oracle contract get_price fails with StalePrice exactly
\* when now - last_update > 3600, whatever the circuit breaker is; at
\* now - last_update = 3600 it does not fail for staleness.
C11_StaleExactly ==
    [][(app \in OracleApps /\ CallStep({"get_price"})) =>
        (last'.err = "StalePrice" <=> now - global.last_update > 3600)]_vars

\* A read of a price 3601 seconds old with the breaker tripped.
C11_Witness ==
    /\ app = Enterprise
    /\ global.circuit_breaker = 1
    /\ now - global.last_update = 3601
    /\ last.op = "get_price" /\ last.err = "StalePrice"

\* C12: in the contracts with a circuit breaker get_price changes no global
\* and no local state; with a fresh price and the breaker tripped it fails
\* with CircuitBreakerActive, and with a fresh price and the breaker clear
\* it is approved and returns the stored current_price.
C12_GetPriceReadOnly ==
    [][(app \in {Enterprise, PriceOracle} /\ CallStep({"get_price"})) =>
        LET fresh == now - global.last_update <= 3600 IN
        /\ global' = global
        /\ local' = local
        /\ (fresh /\ global.circuit_breaker = 1) =>
              last'.err = "CircuitBreakerActive"
        /\ (fresh /\ global.circuit_breaker = 0) =>
              Accepted(last') /\ last'.ret = global.current_price]_vars

\* C13: in the contracts with a circuit breaker, circuit_breaker is 0 or 1
\* and changes only in an accepted call sent by the creator: to 1 by
\* emergency_pause / trigger_breaker, to 0 by resume / reset_breaker.  No
\* other operation, no other sender and no passing of time changes it.
C13_BreakerOnlyByController ==
    [][(app \in {Enterprise, PriceOracle}) =>
        /\ global.circuit_breaker \in {0, 1}
        /\ global'.circuit_breaker \in {0, 1}
        /\ global'.circuit_breaker # global.circuit_breaker =>
            /\ now' = now
            /\ Accepted(last')
            /\ last'.sender = Creator
            /\ \/ last'.op \in {"emergency_pause", "trigger_breaker"}
                    /\ global'.circuit_breaker = 1
               \/ last'.op \in {"resume", "reset_breaker"}
                    /\ global'.circuit_breaker = 0]_vars

\* The breaker is tripped, a price has been committed and the clock
\* has moved on, and another account's reset has just been refused.
C13_Witness ==
    /\ app = PriceOracle
    /\ global.circuit_breaker = 1
    /\ global.current_price # INITIAL_PRICE
    /\ now > T0
    /\ last.op = "reset_breaker" /\ last.sender # Creator
    /\ last.err = "Unauthorized"

C15_CountersMonotone ==
    [][/\ app = Enterprise =>
            global'.total_submissions =
                IF CallStep({"submit"}) /\ Accepted(last')
                THEN global.total_submissions + 1
                ELSE global.total_submissions
       /\ app = RebalanceEngine =>
            global'.rebalance_count =
                IF CallStep({"execute_rebalance"}) /\ Accepted(last')
                THEN global.rebalance_count + 1
                ELSE global.rebalance_count]_vars

\* Two rebalances have committed, a target has been set, and a
\* rebalance over the slippage bound has just been refused.
C15_Witness ==
    /\ app = RebalanceEngine
    /\ global.rebalance_count = 2
    /\ global.target_delta = 750
    /\ last.op = "execute_rebalance" /\ last.err = "SlippageExceeded"

C17_RegisterEffect ==
    [][(app = Enterprise /\ CallStep({"opt_in"}) /\ Accepted(last')) =>
        LET s == last'.sender IN
        /\ local'[s] = [opted |-> TRUE, oracle_auth |-> 0, oracle_rep |-> 100,
                        last_sub |-> 0]
        /\ global' = global
        /\ \A q \in Principals \ {s} : local'[q] = local[q]]_vars

\* alice, whose flag was 1 and whose reputation had grown above 100, has
\* just registered again.
C17_Witness ==
    /\ app = Enterprise
    /\ last.op = "opt_in" /\ Accepted(last) /\ last.sender = "alice"
    /\ hist.top_rep["alice"] > 100
    /\ local["alice"].oracle_auth = 0
    /\ local["alice"].oracle_rep = 100
    /\ local["alice"].last_sub = 0
    /\ global.total_submissions > 0

\* C18: calculate_risk_score(collateral, balance, price) sent by an
\* opted-in account is accepted and stores into the sender's local state
\* risk_score = floor(collateral * 10000 / balance) when balance > 0 and
\* 10000 when balance = 0, whatever the price; other accounts and the
\* global state are unchanged.
C18_RiskScore ==
    [][(/\ app = RiskManager
        /\ CallStep({"calculate_risk"})
        /\ Len(last'.args) = 4
        /\ AllBtoiOk(last'.args, 1 .. 3)
        /\ local[last'.sender].opted) =>
          LET s == last'.sender
              collateral == Btoi(Arg(last'.args, 1))
              balance == Btoi(Arg(last'.args, 2))
          IN
          /\ Accepted(last')
          /\ local'[s].user_risk_score =
                IF balance > 0 THEN (collateral * 10000) \div balance ELSE 10000
          /\ (collateral = 100 /\ balance = 100) => local'[s].user_risk_score = 10000
          /\ (collateral = 100 /\ balance = 200) => local'[s].user_risk_score = 5000
          /\ \A q \in Principals \ {s} : local'[q] = local[q]
          /\ global' = global]_vars

\* A position with no balance has just been scored.
C18_Witness ==
    /\ app = RiskManager
    /\ last.op = "calculate_risk" /\ Accepted(last)
    /\ Btoi(Arg(last.args, 1)) = 100 /\ Btoi(Arg(last.args, 2)) = 0
    /\ local[last.sender].user_risk_score = 10000

\* C19: check_liquidation(collateral, balance, price) returns true exactly
\* when balance > 0 and the collateral ratio collateral / balance is below
\* 120%, ratio and threshold taken in the same unit (basis points: below
\* 12000); collateral = 100 with balance = 200 returns true and balance = 0
\* returns false.
C19_LiquidationVerdict ==
    [][(/\ app = RiskManager
        /\ CallStep({"check_liquidation"})
        /\ Len(last'.args) = 5
        /\ AllBtoiOk(last'.args, 2 .. 4)) =>
          LET collateral == Btoi(Arg(last'.args, 2))
              balance == Btoi(Arg(last'.args, 3))
          IN
          (last'.ret = 1) <=>
              (balance > 0 /\ (collateral * 10000) \div balance < 120 * 100)]_vars

\* C20: execute_liquidation(amount, price) is accepted only when the first
\* transaction of its group is a payment to the application's own address
\* of exactly amount; when the receiver or the amount of the first
\* transaction does not match, the call fails and liquidation_pool is
\* unchanged.
C20_LiquidationPayment ==
    [][(/\ app = RiskManager
        /\ CallStep({"execute_liquidation"})
        /\ Len(last'.args) = 5
        /\ AllBtoiOk(last'.args, 2 .. 3)) =>
          LET amount == Btoi(Arg(last'.args, 2))
              matches == /\ last'.group.size >= 2
                         /\ last'.group.type = "pay"
                         /\ last'.group.receiver = AppAddress
                         /\ last'.group.amount = amount
          IN
          /\ Accepted(last') => matches
          /\ ~matches =>
                global'.liquidation_pool = global.liquidation_pool]_vars

\* C21: an accepted execute_liquidation(amount, price) adds exactly
\* floor(floor(amount * 500 / 10000) / 2) to liquidation_pool and changes
\* no other global key and no local state; in every other step
\* liquidation_pool keeps its value, so it never decreases.
C21_LiquidationFee ==
    [][(app = RiskManager) =>
        IF CallStep({"execute_liquidation"}) /\ Accepted(last')
        THEN /\ global' =
                  [global EXCEPT !.liquidation_pool =
                      @ + ((Btoi(Arg(last'.args, 2)) * 500) \div 10000) \div 2]
             /\ local' = local
        ELSE global'.liquidation_pool = global.liquidation_pool]_vars

\* A liquidation of 1999 has paid floor(floor(99.95) / 2) = 49 into the
\* empty pool.
C21_Witness ==
    /\ app = RiskManager
    /\ last.op = "execute_liquidation" /\ Accepted(last)
    /\ Btoi(Arg(last.args, 2)) = 1999
    /\ global.liquidation_pool = 49

\* C22: a call sent by p changes the local state of no account other than
\* p, in every contract and for every operation; an accepted
\* calculate_risk_score changes only the sender's risk score and liquidation
\* price, and an accepted calculate_delta changes only the sender's delta
\* exposure, to floor(balance * volatility / 10000).
C22_LocalStateBySender ==
    [][(now' = now) =>
        LET s == last'.sender IN
        /\ \A q \in Principals \ {s} : local'[q] = local[q]
        /\ (app = RiskManager /\ last'.op = "calculate_risk" /\ Accepted(last')) =>
              /\ local'[s].user_delta_exposure = local[s].user_delta_exposure
              /\ local'[s].opted = local[s].opted
        /\ (app = RiskManager /\ last'.op = "calculate_delta" /\ Accepted(last')) =>
              local'[s] =
                 [local[s] EXCEPT !.user_delta_exposure =
                    (Btoi(Arg(last'.args, 1)) * Btoi(Arg(last'.args, 3)))
                        \div 10000]]_vars

\* The creator holds a risk score, and alice's calculate_delta(200, ., 1500)
\* has just stored 30 for alice and nothing for the creator.
C22_Witness ==
    /\ app = RiskManager
    /\ last.op = "calculate_delta" /\ Accepted(last) /\ last.sender = "alice"
    /\ local["alice"].user_delta_exposure = 30
    /\ local[Creator].opted
    /\ local[Creator].user_risk_score = 5000
    /\ local[Creator].user_delta_exposure = 0

\* C23: RebalanceEngine's calculate_delta(total_supply, total_collateral,
\* price, price_change) commits for every input: with price_change = 0 it
\* stores current_delta = 0, and with price_change # 0 it stores
\* floor((floor(total_supply * price / 1e6)
\*        - floor(total_collateral * price / 1e6)) * 10000 / price_change).
C23_RebalanceDelta ==
    [][(/\ app = RebalanceEngine
        /\ CallStep({"calculate_delta"})
        /\ Len(last'.args) = 5
        /\ AllBtoiOk(last'.args, 1 .. 4)) =>
          LET price == Btoi(Arg(last'.args, 3))
              price_change == Btoi(Arg(last'.args, 4))
              portfolio == (Btoi(Arg(last'.args, 1)) * price) \div 1000000
              collateral == (Btoi(Arg(last'.args, 2)) * price) \div 1000000
          IN
          /\ Accepted(last')
          /\ global'.current_delta =
                IF price_change = 0 THEN 0
                ELSE ((portfolio - collateral) * 10000) \div price_change]_vars

\* C24: check_rebalance_needed returns true exactly when
\* now - last_rebalance >= 3600 and |current_delta - target_delta| > 500
\* both hold (a difference of exactly 500, or 3599 seconds, gives false),
\* and it changes no global and no local state.
C24_RebalanceNeeded ==
    [][(app = RebalanceEngine /\ CallStep({"check_rebalance"})) =>
        LET diff == IF global.current_delta > global.target_delta
                    THEN global.current_delta - global.target_delta
                    ELSE global.target_delta - global.current_delta
        IN
        /\ (last'.ret = 1) <=> (now - global.last_rebalance >= 3600 /\ diff > 500)
        /\ global' = global
        /\ local' = local]_vars

\* 3599 seconds after the last rebalance, with the deltas 501 apart, the
\* check has just answered false.
C24_Witness ==
    /\ app = RebalanceEngine
    /\ last.op = "check_rebalance" /\ last.ret = 0
    /\ now - global.last_rebalance = 3599
    /\ global.current_delta - global.target_delta = 501

\* C25: execute_rebalance(amount, direction, slippage) fails and changes
\* nothing when slippage > 300 or when its group holds fewer than 2
\* transactions; otherwise it is accepted, sets last_rebalance to now and
\* rebalance_count to rebalance_count + 1, and leaves current_delta,
\* target_delta, funding_rate and yield_pool as they were.
C25_ExecuteRebalance ==
    [][(/\ app = RebalanceEngine
        /\ CallStep({"execute_rebalance"})
        /\ Len(last'.args) = 4
        /\ AllBtoiOk(last'.args, 1 .. 3)) =>
          /\ local' = local
          /\ IF Btoi(Arg(last'.args, 3)) > 300 \/ last'.group.size < 2
             THEN ~Accepted(last') /\ global' = global
             ELSE /\ Accepted(last')
                  /\ global' = [global EXCEPT
                                   !.last_rebalance = now,
                                   !.rebalance_count = @ + 1]]_vars

\* Scenario D: after one committed rebalance, a rebalance with slippage 301
\* in a group of two has just failed, at a later time.
C25_Witness ==
    /\ app = RebalanceEngine
    /\ last.op = "execute_rebalance" /\ last.err = "SlippageExceeded"
    /\ Btoi(Arg(last.args, 3)) = 301
    /\ last.group.size = 2
    /\ global.rebalance_count = 1
    /\ global.last_rebalance < now

C27_DistributeYield ==
    [][(/\ app = RebalanceEngine
        /\ CallStep({"distribute_yield"})
        /\ Len(last'.args) = 2
        /\ BtoiOk(Arg(last'.args, 1))) =>
          LET amount == Btoi(Arg(last'.args, 1))
              matches == /\ last'.group.size >= 2
                         /\ last'.group.type = "pay"
                         /\ last'.group.receiver = AppAddress
                         /\ last'.group.amount = amount
          IN
          /\ local' = local
          /\ IF matches
             THEN /\ Accepted(last')
                  /\ global' = [global EXCEPT !.yield_pool = @ + amount]
             ELSE ~Accepted(last') /\ global' = global]_vars

\* Scenario C: after one committed distribution of 1000, a distribution of
\* 1000 backed by a payment of 999 to the engine has just failed.
C27_Witness ==
    /\ app = RebalanceEngine
    /\ last.op = "distribute_yield" /\ last.err = "GroupPaymentMismatch"
    /\ Btoi(Arg(last.args, 1)) = 1000
    /\ last.group.type = "pay" /\ last.group.receiver = AppAddress
    /\ last.group.amount = 999
    /\ global.yield_pool = 1000

C29_TargetDeltaByController ==
    [][(app = RebalanceEngine) =>
        /\ (CallStep({"set_target_delta"}) /\ Accepted(last')) =>
              last'.sender = Creator
        /\ (/\ CallStep({"set_target_delta"})
            /\ last'.sender = Creator
            /\ Len(last'.args) = 2
            /\ BtoiOk(Arg(last'.args, 1))) => Accepted(last')
        /\ global'.target_delta =
              IF CallStep({"set_target_delta"}) /\ Accepted(last')
              THEN Btoi(Arg(last'.args, 1))
              ELSE global.target_delta]_vars

\* The creator's set_target_delta(750) has just committed on an engine that
\* has already stored a delta and run a rebalance.
C29_Witness ==
    /\ app = RebalanceEngine
    /\ last.op = "set_target_delta" /\ Accepted(last)
    /\ last.sender = Creator
    /\ global.target_delta = 750
    /\ global.current_delta > 0
    /\ global.rebalance_count > 0

C31_LiquidationUnchecked ==
    [][(app = RiskManager /\ CallStep({"execute_liquidation"})) =>
        /\ local' = local
        /\ (/\ Len(last'.args) = 5
            /\ AllBtoiOk(last'.args, 2 .. 3)
            /\ last'.group.size >= 2
            /\ last'.group.type = "pay"
            /\ last'.group.receiver = AppAddress
            /\ last'.group.amount = Btoi(Arg(last'.args, 2))) =>
              /\ Accepted(last')
              /\ global'.liquidation_pool > global.liquidation_pool]_vars

\* A liquidation of alice's position has just committed behind a payment of
\* its amount, while the score stored for alice is 10000, far from the
\* threshold, and the position is untouched.
C31_Witness ==
    /\ app = RiskManager
    /\ last.op = "execute_liquidation" /\ Accepted(last)
    /\ Arg(last.args, 1) = "alice"
    /\ last.group.type = "pay" /\ last.group.receiver = AppAddress
    /\ last.group.amount = Btoi(Arg(last.args, 2))
    /\ local["alice"].opted
    /\ local["alice"].user_risk_score = 10000
    /\ local["alice"].user_liquidation_price = 10000
    /\ global.liquidation_pool > 0

\* C32: last_rebalance holds the time of the last committed
\* execute_rebalance, or of the deployment when there was none, and a
\* check_rebalance_needed made less than 3600 seconds after that time
\* returns false whatever current_delta and target_delta are.
C32_RateLimit ==
    [][(app = RebalanceEngine) =>
        /\ global.last_rebalance >= T0
        /\ global'.last_rebalance =
              IF CallStep({"execute_rebalance"}) /\ Accepted(last')
              THEN now ELSE global.last_rebalance
        /\ (CallStep({"check_rebalance"}) /\ now < global.last_rebalance + 3600) =>
              /\ last'.ret = 0
              /\ ~Accepted(last')]_vars

\* One second after a rebalance committed, with the delta 1250 away from
\* its target, check_rebalance_needed has just returned false.
C32_Witness ==
    /\ app = RebalanceEngine
    /\ last.op = "check_rebalance" /\ last.ret = 0
    /\ global.rebalance_count > 0
    /\ global.last_rebalance > T0
    /\ now = global.last_rebalance + 1
    /\ AbsDiff(global.current_delta, global.target_delta) > 500

\* C33: execute_rebalance with three well-formed arguments, a slippage of
\* at most 300 and a group of at least 2 transactions is accepted also in
\* a state in which check_rebalance_needed returns false; so a rebalance
\* commits less than 3600 seconds after the one before it, and with
\* |current_delta - target_delta| <= 500.
C33_RebalanceUngated ==
    [][(/\ app = RebalanceEngine
        /\ CallStep({"execute_rebalance"})
        /\ Len(last'.args) = 4
        /\ AllBtoiOk(last'.args, 1 .. 3)
        /\ Btoi(Arg(last'.args, 3)) <= 300
        /\ last'.group.size >= 2) =>
          /\ Accepted(last')
          /\ global'.rebalance_count = global.rebalance_count + 1
          /\ global'.last_rebalance = now]_vars

\* The second rebalance has just committed at the time of the first, with
\* current_delta equal to target_delta: check_rebalance_needed is false
\* on both counts.
C33_Witness ==
    /\ app = RebalanceEngine
    /\ last.op = "execute_rebalance" /\ Accepted(last)
    /\ global.rebalance_count = 2
    /\ global.last_rebalance = now
    /\ now = T0
    /\ AbsDiff(global.current_delta, global.target_delta) <= 500
    /\ RebCheckRebalanceRet(global, now) = 0

\* C34: in every oracle program current_price is greater than 0 in every
\* state, so an accepted get_price never returns 0; and in a state with
\* current_price below 20, where floor(current_price * 500 / 10000) = 0,
\* no step changes current_price: a submission of another price is refused
\* and the price stays as it is.
C34_PriceFloor ==
    [][(app \in OracleApps) =>
        /\ global.current_price > 0
        /\ global'.current_price > 0
        /\ (CallStep({"get_price"}) /\ Accepted(last')) => last'.ret > 0
        /\ (global.current_price < 20) =>
              /\ (global.current_price * 500) \div 10000 = 0
              /\ global'.current_price = global.current_price
              /\ (/\ CallStep(SubmitOps)
                  /\ HasPrice(last')
                  /\ PriceOf(last') # global.current_price) => ~Accepted(last')]_vars

\* In EnterprisePriceOracle, at the price 19 and after an accepted
\* submission, a submission of 18 has just been refused for its deviation.
C34_Witness ==
    /\ app = Enterprise
    /\ global.current_price = 19
    /\ global.total_submissions > 0
    /\ last.op \in SubmitOps
    /\ last.err = "DeviationExceeded"
    /\ HasPrice(last) /\ PriceOf(last) = 18

\* C35: in EnterprisePriceOracle and SimplePriceOracle the counter
\* oracle_count equals the number of accounts whose local authorized flag
\* is 1, in every state.
C35_CountMatchesFlags ==
    (app \in {Enterprise, Simple}) =>
        global.oracle_count =
            Cardinality({p \in Principals : local[p].opted /\ local[p].oracle_auth = 1})

\* C36: yield_pool is never more than the total of the payments made to
\* the RebalanceEngine's address in the groups committed so far: one
\* payment is credited at most once, also when two distribute_yield calls
\* of one group refer to the same first transaction.
C36_YieldBacked ==
    (app = RebalanceEngine) => global.yield_pool <= hist.engine_paid

\* The calls made to an engine in SpecBesideOracle.
EngineOps ==
    {"opt_in", "calculate_risk", "check_liquidation", "execute_liquidation",
     "calculate_delta", "check_rebalance", "execute_rebalance"}

\* C37: with an oracle deployed beside them, the RiskManager and the
\* RebalanceEngine neither read nor write the oracle's store: no call to an
\* engine changes it, and whatever its price, breaker and age are (breaker
\* tripped and price stale included), execute_liquidation behind its
\* payment, calculate_risk_score of an opted-in sender and execute_rebalance
\* within the slippage bound are accepted and write what the caller's
\* figures give.
C37_OracleNotConsulted ==
    [][(app \in {RiskManager, RebalanceEngine}) =>
        /\ CallStep(EngineOps) => oracle' = oracle
        /\ (oracle' # oracle) => (global' = global /\ local' = local)
        /\ (/\ app = RiskManager
            /\ CallStep({"execute_liquidation"})
            /\ Len(last'.args) = 5
            /\ AllBtoiOk(last'.args, 2 .. 3)
            /\ last'.group.type = "pay"
            /\ last'.group.receiver = AppAddress) =>
              /\ Accepted(last')
              /\ global'.liquidation_pool =
                    global.liquidation_pool
                        + ((Btoi(Arg(last'.args, 2)) * 500) \div 10000) \div 2
        /\ (/\ app = RiskManager
            /\ CallStep({"calculate_risk"})
            /\ Len(last'.args) = 4
            /\ AllBtoiOk(last'.args, 1 .. 3)
            /\ local[last'.sender].opted) =>
              /\ Accepted(last')
              /\ local'[last'.sender].user_risk_score =
                    IF Btoi(Arg(last'.args, 2)) > 0
                    THEN (Btoi(Arg(last'.args, 1)) * 10000) \div Btoi(Arg(last'.args, 2))
                    ELSE 10000
        /\ (/\ app = RebalanceEngine
            /\ CallStep({"execute_rebalance"})
            /\ Len(last'.args) = 4
            /\ AllBtoiOk(last'.args, 1 .. 3)
            /\ Btoi(Arg(last'.args, 3)) <= 300
            /\ last'.group.size >= 2) =>
              /\ Accepted(last')
              /\ global'.last_rebalance = now]_vars

\* With the oracle's breaker tripped and its price stale, a liquidation has
\* just committed in the RiskManager.
C37_Witness ==
    /\ app = RiskManager
    /\ oracle # NoOracle
    /\ oracle.circuit_breaker = 1
    /\ now - oracle.last_update > 3600
    /\ EntGetPriceErr(oracle, now) # ""
    /\ last.op = "execute_liquidation" /\ Accepted(last)
    /\ global.liquidation_pool > 0

\* C38: with a ledger clock that never goes back, last_update <= now holds
\* in every state of the oracles and last_rebalance <= now in every state
\* of the RebalanceEngine, so the unsigned subtractions in get_price and in
\* check_rebalance_needed never underflow: neither call ever ends in an
\* arithmetic error.
C38_NoTimeUnderflow ==
    /\ (app \in OracleApps) => global.last_update <= now
    /\ (app = RebalanceEngine) => global.last_rebalance <= now
    /\ (last.op \in {"get_price", "check_rebalance"}) => last.err # "ArithmeticError"

\* A second after a rebalance committed, later than the deployment,
\* check_rebalance_needed has just run its subtraction.
C38_Witness ==
    /\ app = RebalanceEngine
    /\ global.last_rebalance > T0
    /\ now = global.last_rebalance + 1
    /\ last.op = "check_rebalance"
    /\ last.err # "ArithmeticError"
    /\ last.ret = 0

\* C39: RebalanceEngine's calculate_delta(total_supply, total_collateral,
\* price, price_change) with price_change # 0 is accepted exactly when
\* floor(total_supply * price / 1000000) >= floor(total_collateral * price
\* / 1000000); when the collateral value is the larger one the call fails
\* and current_delta, like the rest of the store, keeps its value.
C39_DeltaUnderflow ==
    [][(/\ app = RebalanceEngine
        /\ CallStep({"calculate_delta"})
        /\ Len(last'.args) = 5
        /\ AllBtoiOk(last'.args, 1 .. 4)
        /\ Btoi(Arg(last'.args, 4)) # 0) =>
          LET price == Btoi(Arg(last'.args, 3))
              portfolio_value == (Btoi(Arg(last'.args, 1)) * price) \div 1000000
              collateral_value == (Btoi(Arg(last'.args, 2)) * price) \div 1000000
          IN
          /\ Accepted(last') <=> portfolio_value >= collateral_value
          /\ Accepted(last') =>
                /\ global'.current_delta =
                      ((portfolio_value - collateral_value) * 10000)
                          \div Btoi(Arg(last'.args, 4))
                /\ global'.current_delta >= 0
          /\ ~Accepted(last') => global' = global]_vars

\* With a current_delta of 1250 stored, a calculate_delta whose collateral
\* value (500) exceeds its portfolio value (250) has just failed, and 1250
\* is still stored.
C39_Witness ==
    /\ app = RebalanceEngine
    /\ last.op = "calculate_delta" /\ last.err = "ArithmeticError"
    /\ Btoi(Arg(last.args, 1)) = 1000 /\ Btoi(Arg(last.args, 2)) = 2000
    /\ Btoi(Arg(last.args, 4)) # 0
    /\ global.current_delta = 1250

\* C40: in EnterprisePriceOracle, while now - last_update > 3600 every
\* get_price fails with StalePrice, and the price stays stale over every
\* step but an accepted submit; a submit of a price within the bound by an
\* account whose flag is 1, with the breaker clear, is accepted in that
\* state and sets last_update to now; and a get_price made at the time of
\* the last update with the breaker clear succeeds and returns the price.
C40_StaleUntilSubmit ==
    [][(app = Enterprise) =>
        LET stale == now - global.last_update > 3600 IN
        /\ (stale /\ CallStep({"get_price"})) => last'.err = "StalePrice"
        /\ (stale /\ ~(CallStep({"submit"}) /\ Accepted(last'))) =>
              now' - global'.last_update > 3600
        /\ (/\ stale
            /\ CallStep({"submit"})
            /\ local[last'.sender].oracle_auth = 1
            /\ global.circuit_breaker = 0
            /\ HasPrice(last')
            /\ WithinBound(PriceOf(last'), global.current_price)) =>
              /\ Accepted(last')
              /\ global'.last_update = now
              /\ global'.current_price = PriceOf(last')
        /\ (/\ CallStep({"get_price"})
            /\ global.last_update = now
            /\ global.circuit_breaker = 0) =>
              /\ Accepted(last')
              /\ last'.ret = global.current_price]_vars

\* The only submission so far was accepted 3601 seconds after the
\* deployment, when the seed price was stale, and a get_price at that same
\* time has just returned the new price.
C40_Witness ==
    /\ app = Enterprise
    /\ now = T0 + 3601
    /\ global.total_submissions = 1
    /\ global.last_update = now
    /\ global.current_price = 260000
    /\ last.op = "get_price" /\ Accepted(last)
    /\ last.ret = 260000

=============================================================================
